---------------------------- MODULE Spec2Model ----------------------------
(***************************************************************************)
(* Model of pyeplan.investoper.inosys: construction from the input tables, *)
(* the optimisation model that solve() builds (variables, domains and      *)
(* constraint rules), the solver call, the capture of the solved values,   *)
(* the results directory, and the result accessors.                        *)
(* Two data-preparation tools are modelled beside it, each under its own   *)
(* specification: rousys.min_spn_tre (pyeplan.routing) and the scenario    *)
(* durations of datsys.kmeans_clust (pyeplan.dataproc).                    *)
(*                                                                         *)
(* Numbers.  The program computes in floating point; the model computes on *)
(* an integer grid:                                                        *)
(*   - powers, energies, demands and costs per unit are integers;          *)
(*   - every fractional quantity (investment and commitment status, shed   *)
(*     fraction, bus voltage, line resistance and reactance) is held as a  *)
(*     numerator over Den, so the value 1.0 is the numerator Den;          *)
(*   - battery efficiencies ec and ed are rationals <<num, den>>;          *)
(*   - the cost variables z, inv, opr, she hold Den times the cost.        *)
(* Every rule is the source's rule with both sides multiplied by the       *)
(* positive denominators that occur in it.                                 *)
(***************************************************************************)
EXTENDS Integers, FiniteSets, Sequences, TLC

\* Grid resolution: fractional quantities are numerators over Den.
Den == 2
\* Largest numerator the solver grid offers to a status variable that the
\* model leaves without an upper bound (1.5 when Den = 2).
MaxStatus == 3
\* Largest magnitude the solver grid offers to a power variable.
MaxPow == 3

-----------------------------------------------------------------------------
(* Helpers *)

RECURSIVE Sum(_)
Sum(f) ==
  IF DOMAIN f = {} THEN 0
  ELSE LET e == CHOOSE e \in DOMAIN f : TRUE
       IN f[e] + Sum([k \in (DOMAIN f) \ {e} |-> f[k]])

\* A table read by pandas: rows are numbered from 0.
Tbl(rows) == [i \in 0..(Len(rows) - 1) |-> rows[i + 1]]

\* DataFrame.iloc[r, c] of a table given as a sequence of rows.
iloc(tab, r, c) == tab[r + 1][c + 1]

-----------------------------------------------------------------------------
(* Input folders.  Each folder holds the 17 tables that __init__ reads,    *)
(* together with the arguments the inosys object is constructed with.      *)

Gen(bus, pmin, pmax, qmin, qmax, icost, ocost) ==
  [bus |-> bus, pmin |-> pmin, pmax |-> pmax, qmin |-> qmin, qmax |-> qmax,
   icost |-> icost, ocost |-> ocost]

Bat(bus, emin, emax, eini, pmin, pmax, qmin, qmax, ec, ed, icost) ==
  [bus |-> bus, emin |-> emin, emax |-> emax, eini |-> eini, pmin |-> pmin,
   pmax |-> pmax, qmin |-> qmin, qmax |-> qmax, ec |-> ec, ed |-> ed,
   icost |-> icost]

Lin(from, to, ini, res, rea, pmax, qmax) ==
  [from |-> from, to |-> to, ini |-> ini, res |-> res, rea |-> rea,
   pmax |-> pmax, qmax |-> qmax]

Args(ref_bus, dshed_cost, rshed_cost, phase, vmin, vmax, sbase, sc_fa) ==
  [ref_bus |-> ref_bus, dshed_cost |-> dshed_cost, rshed_cost |-> rshed_cost,
   phase |-> phase, vmin |-> vmin, vmax |-> vmax, sbase |-> sbase,
   sc_fa |-> sc_fa]

NoUnits == <<>>

\* "net": two buses joined by one in-service line, three phases; a candidate
\* generator at the reference bus, an existing generator, the demand and a
\* candidate battery (with no solar or wind candidate beside it) at the far
\* bus; one period, one scenario.
FolderNet ==
  [cgen |-> <<Gen(0, 0, 3, 0, 0, 2, 1)>>,
   egen |-> <<Gen(1, 0, 2, 0, 0, 0, 2)>>,
   csol |-> NoUnits, esol |-> NoUnits, cwin |-> NoUnits, ewin |-> NoUnits,
   cbat |-> <<Bat(1, 0, 2, 1, 0, 2, 0, 0, <<1, 1>>, <<1, 1>>, 1)>>,
   elin |-> <<Lin(0, 1, 1, 0, 0, 1, 1)>>,
   pdem |-> << <<0, 3>> >>, qdem |-> << <<0, 0>> >>,
   prep |-> << <<1>> >>, qrep |-> << <<1>> >>,
   psol |-> << <<0>> >>, qsol |-> << <<0>> >>,
   pwin |-> << <<0>> >>, qwin |-> << <<0>> >>,
   dtim |-> << [dt |-> 1] >>,
   args |-> Args(0, 4, 1, 3, Den - 1, Den + 1, 1, 1)]

\* "ren": one bus, one phase; a candidate and an existing solar unit and a
\* candidate wind unit whose availability exceeds their nameplate pmax;
\* one period, one scenario of demand multiplier 2 and duration 2.
FolderRen ==
  [cgen |-> NoUnits, egen |-> NoUnits,
   csol |-> <<Gen(0, 0, 1, -1, 1, 1, 0)>>,
   esol |-> <<Gen(0, 0, 1, 0, 0, 0, 0)>>,
   cwin |-> <<Gen(0, 0, 1, 0, 0, 1, 0)>>,
   ewin |-> NoUnits,
   cbat |-> NoUnits, elin |-> NoUnits,
   pdem |-> << <<1>> >>, qdem |-> << <<0>> >>,
   prep |-> << <<2>> >>, qrep |-> << <<1>> >>,
   psol |-> << <<2>> >>, qsol |-> << <<0>> >>,
   pwin |-> << <<2>> >>, qwin |-> << <<0>> >>,
   dtim |-> << [dt |-> 2] >>,
   args |-> Args(0, 4, 1, 1, Den - 1, Den + 1, 1, 1)]

\* "bat": one bus, two phases, base power 2; a candidate battery with charge
\* efficiency 1/2 beside a candidate solar unit; two periods, two scenarios.
FolderBat ==
  [cgen |-> NoUnits, egen |-> NoUnits,
   csol |-> <<Gen(0, 0, 4, 0, 0, 1, 0)>>,
   esol |-> NoUnits, cwin |-> NoUnits, ewin |-> NoUnits,
   cbat |-> <<Bat(0, 2, 4, 2, 0, 4, -1, 1, <<1, 2>>, <<1, 1>>, 1)>>,
   elin |-> NoUnits,
   pdem |-> << <<1>>, <<1>> >>, qdem |-> << <<0>>, <<0>> >>,
   prep |-> << <<1, 1>>, <<1, 1>> >>, qrep |-> << <<1, 1>>, <<1, 1>> >>,
   psol |-> << <<2, 0>>, <<0, 2>> >>, qsol |-> << <<0, 0>>, <<0, 0>> >>,
   pwin |-> << <<0, 0>>, <<0, 0>> >>, qwin |-> << <<0, 0>>, <<0, 0>> >>,
   dtim |-> << [dt |-> 1], [dt |-> 1] >>,
   args |-> Args(0, 4, 1, 2, Den - 1, Den + 1, 2, 1)]

\* "bad": one bus; the existing solar unit's pmin exceeds the availability,
\* so the model has no satisfying assignment; a candidate battery.
FolderBad ==
  [cgen |-> NoUnits, egen |-> NoUnits,
   csol |-> NoUnits,
   esol |-> <<Gen(0, 2, 2, 0, 0, 0, 0)>>,
   cwin |-> NoUnits, ewin |-> NoUnits,
   cbat |-> <<Bat(0, 0, 2, 1, 0, 2, 0, 0, <<1, 1>>, <<1, 1>>, 1)>>,
   elin |-> NoUnits,
   pdem |-> << <<1>> >>, qdem |-> << <<0>> >>,
   prep |-> << <<1>> >>, qrep |-> << <<1>> >>,
   psol |-> << <<1>> >>, qsol |-> << <<0>> >>,
   pwin |-> << <<0>> >>, qwin |-> << <<0>> >>,
   dtim |-> << [dt |-> 1] >>,
   args |-> Args(0, 4, 1, 1, Den - 1, Den + 1, 1, 1)]

\* "single": one bus, one period, one scenario of duration 1 and demand
\* multiplier 1; one existing generator (pmin 0, pmax 10, ocost 5), demand 6,
\* a shedding price above the generator's cost.  The candidate solar unit
\* has no availability and gives inv_bat_rule a variable.
FolderSingle ==
  [cgen |-> NoUnits,
   egen |-> <<Gen(0, 0, 10, 0, 0, 0, 5)>>,
   csol |-> <<Gen(0, 0, 1, 0, 0, 1, 0)>>,
   esol |-> NoUnits, cwin |-> NoUnits, ewin |-> NoUnits,
   cbat |-> NoUnits, elin |-> NoUnits,
   pdem |-> << <<6>> >>, qdem |-> << <<0>> >>,
   prep |-> << <<1>> >>, qrep |-> << <<1>> >>,
   psol |-> << <<0>> >>, qsol |-> << <<0>> >>,
   pwin |-> << <<0>> >>, qwin |-> << <<0>> >>,
   dtim |-> << [dt |-> 1] >>,
   args |-> Args(0, 10, 1, 1, Den - 1, Den + 1, 1, 1)]

\* "remote": two buses joined by one in-service line of active limit 5, one
\* phase; an existing generator at the reference bus only, demand 8 at the
\* other bus; one period, one scenario.  The candidate solar unit has no
\* availability and gives inv_bat_rule a variable.
FolderRemote ==
  [cgen |-> NoUnits,
   egen |-> <<Gen(0, 0, 10, 0, 0, 0, 5)>>,
   csol |-> <<Gen(0, 0, 1, 0, 0, 1, 0)>>,
   esol |-> NoUnits, cwin |-> NoUnits, ewin |-> NoUnits,
   cbat |-> NoUnits,
   elin |-> <<Lin(0, 1, 1, 0, 0, 5, 0)>>,
   pdem |-> << <<0, 8>> >>, qdem |-> << <<0, 0>> >>,
   prep |-> << <<1>> >>, qrep |-> << <<1>> >>,
   psol |-> << <<0>> >>, qsol |-> << <<0>> >>,
   pwin |-> << <<0>> >>, qwin |-> << <<0>> >>,
   dtim |-> << [dt |-> 1] >>,
   args |-> Args(0, 10, 1, 1, Den - 1, Den + 1, 1, 1)]

\* "open": three buses, one phase; buses 0 and 1 joined by one line that is
\* out of service (ini = 0, resistance 1/Den), bus 2 joined to nothing and
\* the reference bus; demand 1 at bus 0 and at bus 1, an existing generator
\* at bus 1 only; one period, one scenario.  The candidate solar unit has no
\* availability and gives inv_bat_rule a variable; the candidate battery
\* at bus 2 has an initial energy above its maximum.
FolderOpen ==
  [cgen |-> NoUnits,
   egen |-> <<Gen(1, 0, 2, 0, 0, 0, 1)>>,
   csol |-> <<Gen(2, 0, 1, 0, 0, 1, 0)>>,
   esol |-> NoUnits, cwin |-> NoUnits, ewin |-> NoUnits,
   cbat |-> <<Bat(2, 1, 2, 3, 0, 0, 0, 0, <<1, 1>>, <<1, 1>>, 1)>>,
   elin |-> <<Lin(0, 1, 0, 1, 0, 3, 3)>>,
   pdem |-> << <<1, 1, 0>> >>, qdem |-> << <<0, 0, 0>> >>,
   prep |-> << <<1>> >>, qrep |-> << <<1>> >>,
   psol |-> << <<0>> >>, qsol |-> << <<0>> >>,
   pwin |-> << <<0>> >>, qwin |-> << <<0>> >>,
   dtim |-> << [dt |-> 1] >>,
   args |-> Args(2, 4, 1, 1, Den - 1, Den + 1, 1, 1)]

\* "half": one bus, one phase, demand Den; an existing solar unit that must
\* produce Den - 1, all of its availability; one period, one scenario.  The
\* balance needs the share 1/Den of the demand shed.
FolderHalf ==
  [cgen |-> NoUnits, egen |-> NoUnits, csol |-> NoUnits,
   esol |-> <<Gen(0, Den - 1, Den - 1, 0, 0, 0, 0)>>,
   cwin |-> NoUnits, ewin |-> NoUnits,
   cbat |-> NoUnits, elin |-> NoUnits,
   pdem |-> << <<Den>> >>, qdem |-> << <<0>> >>,
   prep |-> << <<1>> >>, qrep |-> << <<1>> >>,
   psol |-> << <<Den - 1>> >>, qsol |-> << <<0>> >>,
   pwin |-> << <<0>> >>, qwin |-> << <<0>> >>,
   dtim |-> << [dt |-> 1] >>,
   args |-> Args(0, 4, 1, 1, Den - 1, Den + 1, 1, 1)]

Folders == {"net", "ren", "bat", "bad", "single", "remote", "open", "half"}

Folder(f) ==
  CASE f = "net" -> FolderNet
    [] f = "ren" -> FolderRen
    [] f = "bat" -> FolderBat
    [] f = "bad" -> FolderBad
    [] f = "single" -> FolderSingle
    [] f = "remote" -> FolderRemote
    [] f = "open" -> FolderOpen
    [] f = "half" -> FolderHalf


-----------------------------------------------------------------------------
(* inosys.__init__: the tables as the object holds them. *)

\* Series.div(sbase).  The folders hold bounds that sbase divides.
div(v, sbase) == v \div sbase

\* pmin, pmax, qmin, qmax of a generator, solar or wind table to per-unit.
PerUnitGen(rows, sbase) ==
  [i \in DOMAIN Tbl(rows) |->
     [Tbl(rows)[i] EXCEPT !.pmin = div(@, sbase), !.pmax = div(@, sbase),
                          !.qmin = div(@, sbase), !.qmax = div(@, sbase)]]

\* emin, emax, eini, pmin, pmax of the battery table to per-unit.
PerUnitBat(rows, sbase) ==
  [i \in DOMAIN Tbl(rows) |->
     [Tbl(rows)[i] EXCEPT !.emin = div(@, sbase), !.emax = div(@, sbase),
                          !.eini = div(@, sbase), !.pmin = div(@, sbase),
                          !.pmax = div(@, sbase)]]

\* The attributes of the object constructed on folder f.
Construct(f) ==
  LET d == Folder(f)
      a == d.args
  IN [cgen |-> PerUnitGen(d.cgen, a.sbase), egen |-> PerUnitGen(d.egen, a.sbase),
      csol |-> PerUnitGen(d.csol, a.sbase), esol |-> PerUnitGen(d.esol, a.sbase),
      cwin |-> PerUnitGen(d.cwin, a.sbase), ewin |-> PerUnitGen(d.ewin, a.sbase),
      cbat |-> PerUnitBat(d.cbat, a.sbase),
      elin |-> Tbl(d.elin),
      pdem |-> d.pdem, qdem |-> d.qdem, prep |-> d.prep, qrep |-> d.qrep,
      psol |-> d.psol, qsol |-> d.qsol, pwin |-> d.pwin, qwin |-> d.qwin,
      dtim |-> Tbl(d.dtim),
      ncg |-> Len(d.cgen), neg |-> Len(d.egen),
      ncs |-> Len(d.csol), nes |-> Len(d.esol),
      ncw |-> Len(d.cwin), new |-> Len(d.ewin),
      ncb |-> Len(d.cbat), nel |-> Len(d.elin),
      nbb |-> Len(d.pdem[1]), ntt |-> Len(d.prep), noo |-> Len(d.prep[1]),
      cds |-> a.dshed_cost, css |-> a.rshed_cost, cws |-> a.rshed_cost,
      sb |-> a.sbase, sf |-> a.sc_fa, ref_bus |-> a.ref_bus,
      vmin |-> a.vmin, vmax |-> a.vmax, inp_folder |-> f, phase |-> a.phase]

\* The constructed objects, one per folder (the tables never change after
\* construction).
Self == [f \in Folders |-> Construct(f)]

-----------------------------------------------------------------------------
(* inosys.solve: index sets, variable domains *)

Flags == [invest : BOOLEAN, onlyopr : BOOLEAN, commit : BOOLEAN]

\* m.cg, m.eg, ... : pe.Set(initialize=list(range(n)))
range(n) == 0..(n - 1)

\* The index of a variable declared over (units, m.tt, m.oo).
Keys(n, self) == {<<i, tt, oo>> : i \in range(n), tt \in range(self.ntt), oo \in range(self.noo)}

\* The solver grid of a power variable reaches MaxPow and every nameplate
\* bound of the units and lines of the instance.
PowGrid(self) ==
  LET S == {MaxPow}
           \cup UNION {{self[c][i].pmax : i \in DOMAIN self[c]} :
                         c \in {"cgen", "egen", "csol", "esol", "cwin", "ewin", "cbat", "elin"}}
  IN CHOOSE x \in S : \A y \in S : y <= x

NonNegativeReals(self) == 0..PowGrid(self)
Reals(self) == (-PowGrid(self))..PowGrid(self)
Binary == {0, Den}

\* m.pds
Dom_pds(fl) == IF fl.commit THEN Binary ELSE 0..Den

\* m.cu, m.eu
Dom_cu(fl) == IF fl.commit THEN Binary ELSE 0..MaxStatus

\* The investment domains with the onlyopr branch left out.
Dom_x_invest(fl) == IF fl.invest THEN Binary ELSE 0..Den

\* m.xg, m.xs, m.xw, m.xb
Dom_x(fl) ==
  IF ~fl.onlyopr
  THEN IF fl.invest THEN Binary ELSE 0..Den
  ELSE {0}

\* m.vol
Dom_vol(self) == self.vmin..self.vmax

-----------------------------------------------------------------------------
(* inosys.solve: the constraint rules.  m is an assignment of the model's  *)
(* variables: a record of functions, the investment statuses indexed by    *)
(* unit, the others by <<unit or bus or line, period, scenario>>.          *)

At(self, col, bb) == {i \in DOMAIN self[col] : self[col][i].bus = bb}

cost_def_rule(self, m) == m.z = m.inv + m.opr

\* Right-hand side of inv_cost_def_rule, times Den.
InvCost(self, m) ==
          self.sf * Sum([cg \in range(self.ncg) |-> self.cgen[cg].icost * self.cgen[cg].pmax * m.xg[cg]])
        + self.sf * Sum([cs \in range(self.ncs) |-> self.csol[cs].icost * self.csol[cs].pmax * m.xs[cs]])
        + self.sf * Sum([cw \in range(self.ncw) |-> self.cwin[cw].icost * self.cwin[cw].pmax * m.xw[cw]])
        + self.sf * Sum([cb \in range(self.ncb) |-> self.cbat[cb].icost * self.cbat[cb].pmax * m.xb[cb]])

inv_cost_def_rule(self, m) == m.inv = InvCost(self, m)

\* The demand-shedding and curtailment penalty terms, times Den.
ShedTerms(self, m) ==
    Sum([k \in Keys(self.nbb, self) |->
           self.dtim[k[3]].dt * self.cds * iloc(self.pdem, k[2], k[1]) * iloc(self.prep, k[2], k[3]) * m.pds[k]])
  + Sum([k \in Keys(self.nbb, self) |-> self.dtim[k[3]].dt * self.css * m.pss[k] * Den])
  + Sum([k \in Keys(self.nbb, self) |-> self.dtim[k[3]].dt * self.cws * m.pws[k] * Den])

\* The operating cost with the penalty terms counted twice.
OprCost_twice(self, m) ==
          self.sf * self.sb *
          ( Sum([k \in Keys(self.ncg, self) |-> self.dtim[k[3]].dt * self.cgen[k[1]].ocost * m.pcg[k] * Den])
          + Sum([k \in Keys(self.neg, self) |-> self.dtim[k[3]].dt * self.egen[k[1]].ocost * m.peg[k] * Den])
          + Sum([k \in Keys(self.ncs, self) |-> self.dtim[k[3]].dt * self.csol[k[1]].ocost * m.pcs[k] * Den])
          + Sum([k \in Keys(self.nes, self) |-> self.dtim[k[3]].dt * self.esol[k[1]].ocost * m.pes[k] * Den])
          + Sum([k \in Keys(self.ncw, self) |-> self.dtim[k[3]].dt * self.cwin[k[1]].ocost * m.pcw[k] * Den])
          + Sum([k \in Keys(self.new, self) |-> self.dtim[k[3]].dt * self.ewin[k[1]].ocost * m.pew[k] * Den])
          + ShedTerms(self, m) + ShedTerms(self, m) )

\* Right-hand side of opr_cost_def_rule, times Den.
OprCost(self, m) ==
          self.sf * self.sb *
          ( Sum([k \in Keys(self.ncg, self) |-> self.dtim[k[3]].dt * self.cgen[k[1]].ocost * m.pcg[k] * Den])
          + Sum([k \in Keys(self.neg, self) |-> self.dtim[k[3]].dt * self.egen[k[1]].ocost * m.peg[k] * Den])
          + Sum([k \in Keys(self.ncs, self) |-> self.dtim[k[3]].dt * self.csol[k[1]].ocost * m.pcs[k] * Den])
          + Sum([k \in Keys(self.nes, self) |-> self.dtim[k[3]].dt * self.esol[k[1]].ocost * m.pes[k] * Den])
          + Sum([k \in Keys(self.ncw, self) |-> self.dtim[k[3]].dt * self.cwin[k[1]].ocost * m.pcw[k] * Den])
          + Sum([k \in Keys(self.new, self) |-> self.dtim[k[3]].dt * self.ewin[k[1]].ocost * m.pew[k] * Den])
          + ShedTerms(self, m) )

opr_cost_def_rule(self, m) == m.opr = OprCost(self, m)

she_cost_def_rule(self, m) ==
  m.she = self.sf * self.sb * ShedTerms(self, m)

\* act_bal_rule with the ends of the lines exchanged.
act_bal_rule_ends(self, m, bb, tt, oo) ==
    Den * Sum([cg \in At(self, "cgen", bb) |-> m.pcg[<<cg, tt, oo>>]])
  + Den * Sum([eg \in At(self, "egen", bb) |-> m.peg[<<eg, tt, oo>>]])
  + Den * Sum([cs \in At(self, "csol", bb) |-> m.pcs[<<cs, tt, oo>>]])
  + Den * Sum([es \in At(self, "esol", bb) |-> m.pes[<<es, tt, oo>>]])
  + Den * Sum([cw \in At(self, "cwin", bb) |-> m.pcw[<<cw, tt, oo>>]])
  + Den * Sum([ew \in At(self, "ewin", bb) |-> m.pew[<<ew, tt, oo>>]])
  + Den * Sum([cb \in At(self, "cbat", bb) |-> m.pbd[<<cb, tt, oo>>]])
  - Den * Sum([cb \in At(self, "cbat", bb) |-> m.pbc[<<cb, tt, oo>>]])
  + self.phase * Den * Sum([el \in {l \in range(self.nel) : self.elin[l].from = bb} |-> m.pel[<<el, tt, oo>>]])
  = self.phase * Den * Sum([el \in {l \in range(self.nel) : self.elin[l].to = bb} |-> m.pel[<<el, tt, oo>>]])
  + iloc(self.pdem, tt, bb) * iloc(self.prep, tt, oo) * (Den - m.pds[<<bb, tt, oo>>])
  + self.phase * Den * (m.pss[<<bb, tt, oo>>] + m.pws[<<bb, tt, oo>>])

\* Both sides times phase * Den.
act_bal_rule(self, m, bb, tt, oo) ==
    Den * Sum([cg \in At(self, "cgen", bb) |-> m.pcg[<<cg, tt, oo>>]])
  + Den * Sum([eg \in At(self, "egen", bb) |-> m.peg[<<eg, tt, oo>>]])
  + Den * Sum([cs \in At(self, "csol", bb) |-> m.pcs[<<cs, tt, oo>>]])
  + Den * Sum([es \in At(self, "esol", bb) |-> m.pes[<<es, tt, oo>>]])
  + Den * Sum([cw \in At(self, "cwin", bb) |-> m.pcw[<<cw, tt, oo>>]])
  + Den * Sum([ew \in At(self, "ewin", bb) |-> m.pew[<<ew, tt, oo>>]])
  + Den * Sum([cb \in At(self, "cbat", bb) |-> m.pbd[<<cb, tt, oo>>]])
  - Den * Sum([cb \in At(self, "cbat", bb) |-> m.pbc[<<cb, tt, oo>>]])
  + self.phase * Den * Sum([el \in {l \in range(self.nel) : self.elin[l].to = bb} |-> m.pel[<<el, tt, oo>>]])
  = self.phase * Den * Sum([el \in {l \in range(self.nel) : self.elin[l].from = bb} |-> m.pel[<<el, tt, oo>>]])
  + iloc(self.pdem, tt, bb) * iloc(self.prep, tt, oo) * (Den - m.pds[<<bb, tt, oo>>])
  + self.phase * Den * (m.pss[<<bb, tt, oo>>] + m.pws[<<bb, tt, oo>>])

\* Both sides times phase * Den.
rea_bal_rule(self, m, bb, tt, oo) ==
    Den * Sum([cg \in At(self, "cgen", bb) |-> m.qcg[<<cg, tt, oo>>]])
  + Den * Sum([eg \in At(self, "egen", bb) |-> m.qeg[<<eg, tt, oo>>]])
  + Den * Sum([cs \in At(self, "csol", bb) |-> m.qcs[<<cs, tt, oo>>]])
  + Den * Sum([es \in At(self, "esol", bb) |-> m.qes[<<es, tt, oo>>]])
  + Den * Sum([cw \in At(self, "cwin", bb) |-> m.qcw[<<cw, tt, oo>>]])
  + Den * Sum([ew \in At(self, "ewin", bb) |-> m.qew[<<ew, tt, oo>>]])
  + Den * Sum([cb \in At(self, "cbat", bb) |-> m.qcd[<<cb, tt, oo>>]])
  + self.phase * Den * Sum([el \in {l \in range(self.nel) : self.elin[l].to = bb} |-> m.qel[<<el, tt, oo>>]])
  = self.phase * Den * Sum([el \in {l \in range(self.nel) : self.elin[l].from = bb} |-> m.qel[<<el, tt, oo>>]])
  + iloc(self.qdem, tt, bb) * iloc(self.qrep, tt, oo) * (Den - m.pds[<<bb, tt, oo>>])

\* Minimum active generation (both sides times Den where a status occurs).
min_act_cgen_rule(self, m, cg, tt, oo) == Den * m.pcg[<<cg, tt, oo>>] >= m.cu[<<cg, tt, oo>>] * self.cgen[cg].pmin
min_act_egen_rule(self, m, eg, tt, oo) == Den * m.peg[<<eg, tt, oo>>] >= m.eu[<<eg, tt, oo>>] * self.egen[eg].pmin
min_act_csol_rule(self, m, cs, tt, oo) == Den * m.pcs[<<cs, tt, oo>>] >= m.xs[cs] * self.csol[cs].pmin
min_act_esol_rule(self, m, es, tt, oo) == m.pes[<<es, tt, oo>>] >= self.esol[es].pmin
min_act_cwin_rule(self, m, cw, tt, oo) == Den * m.pcw[<<cw, tt, oo>>] >= m.xw[cw] * self.cwin[cw].pmin
min_act_ewin_rule(self, m, ew, tt, oo) == m.pew[<<ew, tt, oo>>] >= self.ewin[ew].pmin
min_act_cbat_rule(self, m, cb, tt, oo) == Den * m.pbc[<<cb, tt, oo>>] >= m.xb[cb] * self.cbat[cb].pmin
min_act_dbat_rule(self, m, cb, tt, oo) == Den * m.pbd[<<cb, tt, oo>>] >= m.xb[cb] * self.cbat[cb].pmin

\* Maximum active generation.
max_act_cgen_rule(self, m, cg, tt, oo) == Den * m.pcg[<<cg, tt, oo>>] <= m.cu[<<cg, tt, oo>>] * self.cgen[cg].pmax
\* max_act_egen_rule reading pmin where the source reads pmax.
max_act_egen_rule_pmin(self, m, eg, tt, oo) == Den * m.peg[<<eg, tt, oo>>] <= m.eu[<<eg, tt, oo>>] * self.egen[eg].pmin
max_act_egen_rule(self, m, eg, tt, oo) == Den * m.peg[<<eg, tt, oo>>] <= m.eu[<<eg, tt, oo>>] * self.egen[eg].pmax
max_act_csol_rule(self, m, cs, tt, oo) == Den * m.pcs[<<cs, tt, oo>>] <= m.xs[cs] * iloc(self.psol, tt, oo)
max_act_esol_rule(self, m, es, tt, oo) == m.pes[<<es, tt, oo>>] <= iloc(self.psol, tt, oo)
max_act_cwin_rule(self, m, cw, tt, oo) == Den * m.pcw[<<cw, tt, oo>>] <= m.xw[cw] * iloc(self.pwin, tt, oo)
max_act_ewin_rule(self, m, ew, tt, oo) == m.pew[<<ew, tt, oo>>] <= iloc(self.pwin, tt, oo)
max_act_cbat_rule(self, m, cb, tt, oo) == Den * m.pbc[<<cb, tt, oo>>] <= m.xb[cb] * self.cbat[cb].pmax
max_act_dbat_rule(self, m, cb, tt, oo) == Den * m.pbd[<<cb, tt, oo>>] <= m.xb[cb] * self.cbat[cb].pmax

\* Minimum reactive generation.
min_rea_cgen_rule(self, m, cg, tt, oo) == Den * m.qcg[<<cg, tt, oo>>] >= m.cu[<<cg, tt, oo>>] * self.cgen[cg].qmin
min_rea_egen_rule(self, m, eg, tt, oo) == Den * m.qeg[<<eg, tt, oo>>] >= m.eu[<<eg, tt, oo>>] * self.egen[eg].qmin
min_rea_csol_rule(self, m, cs, tt, oo) == Den * m.qcs[<<cs, tt, oo>>] >= m.xs[cs] * self.csol[cs].qmin
min_rea_esol_rule(self, m, es, tt, oo) == m.qes[<<es, tt, oo>>] >= self.esol[es].qmin
min_rea_cwin_rule(self, m, cw, tt, oo) == Den * m.qcw[<<cw, tt, oo>>] >= m.xw[cw] * self.cwin[cw].qmin
min_rea_ewin_rule(self, m, ew, tt, oo) == m.qew[<<ew, tt, oo>>] >= self.ewin[ew].qmin
min_rea_bat_rule(self, m, cb, tt, oo) == Den * m.qcd[<<cb, tt, oo>>] >= m.xb[cb] * self.cbat[cb].qmin

\* Maximum reactive generation.
max_rea_cgen_rule(self, m, cg, tt, oo) == Den * m.qcg[<<cg, tt, oo>>] <= m.cu[<<cg, tt, oo>>] * self.cgen[cg].qmax
max_rea_egen_rule(self, m, eg, tt, oo) == Den * m.qeg[<<eg, tt, oo>>] <= m.eu[<<eg, tt, oo>>] * self.egen[eg].qmax
max_rea_csol_rule(self, m, cs, tt, oo) == Den * m.qcs[<<cs, tt, oo>>] <= m.xs[cs] * self.csol[cs].qmax
max_rea_esol_rule(self, m, es, tt, oo) == m.qes[<<es, tt, oo>>] <= self.esol[es].qmax
max_rea_cwin_rule(self, m, cw, tt, oo) == Den * m.qcw[<<cw, tt, oo>>] <= m.xw[cw] * self.cwin[cw].qmax
max_rea_ewin_rule(self, m, ew, tt, oo) == m.qew[<<ew, tt, oo>>] <= self.ewin[ew].qmax
max_rea_bat_rule(self, m, cb, tt, oo) == Den * m.qcd[<<cb, tt, oo>>] <= m.xb[cb] * self.cbat[cb].qmax

\* eini*xb + sum(pbc*ec for t <= tt) - sum(pbd/ed for t <= tt), times
\* Den * ec.den * ed.num (positive).
EngScale(b) == Den * b.ec[2] * b.ed[1]
\* The running sum stopping before period tt.
EngUpTo_before(self, m, cb, tt, oo) ==
  LET b == self.cbat[cb]
  IN b.eini * m.xb[cb] * b.ec[2] * b.ed[1]
     + Den * b.ed[1] * Sum([t \in {t \in range(self.ntt) : t < tt} |-> m.pbc[<<cb, t, oo>>] * b.ec[1]])
     - Den * b.ec[2] * Sum([t \in {t \in range(self.ntt) : t < tt} |-> m.pbd[<<cb, t, oo>>] * b.ed[2]])

EngUpTo(self, m, cb, tt, oo) ==
  LET b == self.cbat[cb]
  IN b.eini * m.xb[cb] * b.ec[2] * b.ed[1]
     + Den * b.ed[1] * Sum([t \in {t \in range(self.ntt) : t <= tt} |-> m.pbc[<<cb, t, oo>>] * b.ec[1]])
     - Den * b.ec[2] * Sum([t \in {t \in range(self.ntt) : t <= tt} |-> m.pbd[<<cb, t, oo>>] * b.ed[2]])

\* min_eng_bat_rule with the floor at zero instead of xb x emin.
min_eng_bat_rule_zero(self, m, cb, tt, oo) ==
  EngUpTo(self, m, cb, tt, oo) >= 0

min_eng_bat_rule(self, m, cb, tt, oo) ==
  EngUpTo(self, m, cb, tt, oo) >= m.xb[cb] * self.cbat[cb].emin * self.cbat[cb].ec[2] * self.cbat[cb].ed[1]

\* max_eng_bat_rule bounding the net charge only, the initial energy left out.
max_eng_bat_rule_net(self, m, cb, tt, oo) ==
  EngUpTo(self, m, cb, tt, oo) - self.cbat[cb].eini * m.xb[cb] * self.cbat[cb].ec[2] * self.cbat[cb].ed[1]
    <= m.xb[cb] * self.cbat[cb].emax * self.cbat[cb].ec[2] * self.cbat[cb].ed[1]

max_eng_bat_rule(self, m, cb, tt, oo) ==
  EngUpTo(self, m, cb, tt, oo) <= m.xb[cb] * self.cbat[cb].emax * self.cbat[cb].ec[2] * self.cbat[cb].ed[1]

\* cop_eng_bat_rule as an inequality: charged energy at least the discharged.
cop_eng_bat_rule_atleast(self, m, cb, oo) ==
  LET b == self.cbat[cb]
  IN b.ed[1] * Sum([t \in range(self.ntt) |-> m.pbc[<<cb, t, oo>>] * b.ec[1]])
     >= b.ec[2] * Sum([t \in range(self.ntt) |-> m.pbd[<<cb, t, oo>>] * b.ed[2]])

\* Both sides times ec.den * ed.num.
cop_eng_bat_rule(self, m, cb, oo) ==
  LET b == self.cbat[cb]
  IN b.ed[1] * Sum([t \in range(self.ntt) |-> m.pbc[<<cb, t, oo>>] * b.ec[1]])
     = b.ec[2] * Sum([t \in range(self.ntt) |-> m.pbd[<<cb, t, oo>>] * b.ed[2]])

\* max_sol_shed_rule as an upper bound instead of an equality.
max_sol_shed_rule_atmost(self, m, bb, tt, oo) ==
  Den * m.pss[<<bb, tt, oo>>] <=
      ( Sum([cs \in At(self, "csol", bb) |-> m.xs[cs] * iloc(self.psol, tt, oo)])
      + Sum([es \in At(self, "esol", bb) |-> Den * iloc(self.psol, tt, oo)]) )
    - ( Den * Sum([cs \in At(self, "csol", bb) |-> m.pcs[<<cs, tt, oo>>]])
      + Den * Sum([es \in At(self, "esol", bb) |-> m.pes[<<es, tt, oo>>]]) )

\* Both sides times Den.
max_sol_shed_rule(self, m, bb, tt, oo) ==
  Den * m.pss[<<bb, tt, oo>>] =
      ( Sum([cs \in At(self, "csol", bb) |-> m.xs[cs] * iloc(self.psol, tt, oo)])
      + Sum([es \in At(self, "esol", bb) |-> Den * iloc(self.psol, tt, oo)]) )
    - ( Den * Sum([cs \in At(self, "csol", bb) |-> m.pcs[<<cs, tt, oo>>]])
      + Den * Sum([es \in At(self, "esol", bb) |-> m.pes[<<es, tt, oo>>]]) )

max_win_shed_rule(self, m, bb, tt, oo) ==
  Den * m.pws[<<bb, tt, oo>>] =
      ( Sum([cw \in At(self, "cwin", bb) |-> m.xw[cw] * iloc(self.pwin, tt, oo)])
      + Sum([ew \in At(self, "ewin", bb) |-> Den * iloc(self.pwin, tt, oo)]) )
    - ( Den * Sum([cw \in At(self, "cwin", bb) |-> m.pcw[<<cw, tt, oo>>]])
      + Den * Sum([ew \in At(self, "ewin", bb) |-> m.pew[<<ew, tt, oo>>]]) )

\* Voltages, res and rea are numerators over Den: both sides times Den.
\* flow_rule imposed on the lines in service only.
flow_rule_inservice(self, m, el, tt, oo) ==
  self.elin[el].ini = 0
  \/ m.vol[<<self.elin[el].from, tt, oo>>] - m.vol[<<self.elin[el].to, tt, oo>>]
       = self.elin[el].res * m.pel[<<el, tt, oo>>] + self.elin[el].rea * m.qel[<<el, tt, oo>>]

flow_rule(self, m, el, tt, oo) ==
  m.vol[<<self.elin[el].from, tt, oo>>] - m.vol[<<self.elin[el].to, tt, oo>>]
    = self.elin[el].res * m.pel[<<el, tt, oo>>] + self.elin[el].rea * m.qel[<<el, tt, oo>>]

\* max_act_eflow_rule with the sign of the flow reversed (the lower limit
\* twice, no upper limit).
max_act_eflow_rule_neg(self, m, el, tt, oo) == -m.pel[<<el, tt, oo>>] <= self.elin[el].pmax * self.elin[el].ini
max_act_eflow_rule(self, m, el, tt, oo) == m.pel[<<el, tt, oo>>] <= self.elin[el].pmax * self.elin[el].ini
\* min_act_eflow_rule without the in-service flag.
min_act_eflow_rule_any(self, m, el, tt, oo) == m.pel[<<el, tt, oo>>] >= -self.elin[el].pmax

min_act_eflow_rule(self, m, el, tt, oo) == m.pel[<<el, tt, oo>>] >= -self.elin[el].pmax * self.elin[el].ini
max_rea_eflow_rule(self, m, el, tt, oo) == m.qel[<<el, tt, oo>>] <= self.elin[el].qmax * self.elin[el].ini
min_rea_eflow_rule(self, m, el, tt, oo) == m.qel[<<el, tt, oo>>] >= -self.elin[el].qmax * self.elin[el].ini

\* vol_ref_rule taking bus 0 for the reference bus.
vol_ref_rule_first(self, m, tt, oo) == m.vol[<<0, tt, oo>>] = Den

\* The value 1 is the numerator Den.
vol_ref_rule(self, m, tt, oo) ==
  Sum([bb \in {b \in range(self.nbb) : b = self.ref_bus} |-> m.vol[<<bb, tt, oo>>]]) = Den

\* inv_stat_rule bounding the commitment by 1 instead of the investment.
inv_stat_rule_one(self, m, cg, tt, oo) == m.cu[<<cg, tt, oo>>] <= Den

inv_stat_rule(self, m, cg, tt, oo) == m.cu[<<cg, tt, oo>>] <= m.xg[cg]

\* inv_bat_rule bounding the batteries by the units of every candidate type.
inv_bat_rule_all(self, m) ==
  Sum([cb \in range(self.ncb) |-> m.xb[cb]])
    <= Sum([cs \in range(self.ncs) |-> m.xs[cs]]) + Sum([cw \in range(self.ncw) |-> m.xw[cw]])
       + Sum([cg \in range(self.ncg) |-> m.xg[cg]])

inv_bat_rule(self, m) ==
  Sum([cb \in range(self.ncb) |-> m.xb[cb]])
    <= Sum([cs \in range(self.ncs) |-> m.xs[cs]]) + Sum([cw \in range(self.ncw) |-> m.xw[cw]])


-----------------------------------------------------------------------------
(* The assignments that satisfy the model. *)

\* Every declared domain and every constraint of the model built by solve.
Satisfies(self, fl, m) ==
  /\ \A cg \in range(self.ncg) : m.xg[cg] \in Dom_x(fl)
  /\ \A cs \in range(self.ncs) : m.xs[cs] \in Dom_x(fl)
  /\ \A cw \in range(self.ncw) : m.xw[cw] \in Dom_x(fl)
  /\ \A cb \in range(self.ncb) : m.xb[cb] \in Dom_x(fl)
  /\ cost_def_rule(self, m)
  /\ inv_cost_def_rule(self, m)
  /\ opr_cost_def_rule(self, m)
  /\ she_cost_def_rule(self, m)
  /\ inv_bat_rule(self, m)
  /\ \A tt \in range(self.ntt), oo \in range(self.noo) :
       /\ vol_ref_rule(self, m, tt, oo)
       /\ \A bb \in range(self.nbb) :
            /\ m.pds[<<bb, tt, oo>>] \in Dom_pds(fl)
            /\ m.pss[<<bb, tt, oo>>] >= 0
            /\ m.pws[<<bb, tt, oo>>] >= 0
            /\ m.vol[<<bb, tt, oo>>] \in Dom_vol(self)
            /\ act_bal_rule(self, m, bb, tt, oo)
            /\ rea_bal_rule(self, m, bb, tt, oo)
            /\ max_sol_shed_rule(self, m, bb, tt, oo)
            /\ max_win_shed_rule(self, m, bb, tt, oo)
       /\ \A cg \in range(self.ncg) :
            /\ m.cu[<<cg, tt, oo>>] \in Dom_cu(fl)
            /\ m.pcg[<<cg, tt, oo>>] >= 0
            /\ m.qcg[<<cg, tt, oo>>] >= 0
            /\ min_act_cgen_rule(self, m, cg, tt, oo)
            /\ max_act_cgen_rule(self, m, cg, tt, oo)
            /\ min_rea_cgen_rule(self, m, cg, tt, oo)
            /\ max_rea_cgen_rule(self, m, cg, tt, oo)
            /\ inv_stat_rule(self, m, cg, tt, oo)
       /\ \A eg \in range(self.neg) :
            /\ m.eu[<<eg, tt, oo>>] \in Dom_cu(fl)
            /\ m.peg[<<eg, tt, oo>>] >= 0
            /\ m.qeg[<<eg, tt, oo>>] >= 0
            /\ min_act_egen_rule(self, m, eg, tt, oo)
            /\ max_act_egen_rule(self, m, eg, tt, oo)
            /\ min_rea_egen_rule(self, m, eg, tt, oo)
            /\ max_rea_egen_rule(self, m, eg, tt, oo)
       /\ \A cs \in range(self.ncs) :
            /\ m.pcs[<<cs, tt, oo>>] >= 0
            /\ min_act_csol_rule(self, m, cs, tt, oo)
            /\ max_act_csol_rule(self, m, cs, tt, oo)
            /\ min_rea_csol_rule(self, m, cs, tt, oo)
            /\ max_rea_csol_rule(self, m, cs, tt, oo)
       /\ \A es \in range(self.nes) :
            /\ m.pes[<<es, tt, oo>>] >= 0
            /\ min_act_esol_rule(self, m, es, tt, oo)
            /\ max_act_esol_rule(self, m, es, tt, oo)
            /\ min_rea_esol_rule(self, m, es, tt, oo)
            /\ max_rea_esol_rule(self, m, es, tt, oo)
       /\ \A cw \in range(self.ncw) :
            /\ m.pcw[<<cw, tt, oo>>] >= 0
            /\ min_act_cwin_rule(self, m, cw, tt, oo)
            /\ max_act_cwin_rule(self, m, cw, tt, oo)
            /\ min_rea_cwin_rule(self, m, cw, tt, oo)
            /\ max_rea_cwin_rule(self, m, cw, tt, oo)
       /\ \A ew \in range(self.new) :
            /\ m.pew[<<ew, tt, oo>>] >= 0
            /\ min_act_ewin_rule(self, m, ew, tt, oo)
            /\ max_act_ewin_rule(self, m, ew, tt, oo)
            /\ min_rea_ewin_rule(self, m, ew, tt, oo)
            /\ max_rea_ewin_rule(self, m, ew, tt, oo)
       /\ \A cb \in range(self.ncb) :
            /\ m.pbc[<<cb, tt, oo>>] >= 0
            /\ m.pbd[<<cb, tt, oo>>] >= 0
            /\ min_act_cbat_rule(self, m, cb, tt, oo)
            /\ min_act_dbat_rule(self, m, cb, tt, oo)
            /\ max_act_cbat_rule(self, m, cb, tt, oo)
            /\ max_act_dbat_rule(self, m, cb, tt, oo)
            /\ min_rea_bat_rule(self, m, cb, tt, oo)
            /\ max_rea_bat_rule(self, m, cb, tt, oo)
            /\ min_eng_bat_rule(self, m, cb, tt, oo)
            /\ max_eng_bat_rule(self, m, cb, tt, oo)
            /\ cop_eng_bat_rule(self, m, cb, oo)
       /\ \A el \in range(self.nel) :
            /\ flow_rule(self, m, el, tt, oo)
            /\ max_act_eflow_rule(self, m, el, tt, oo)
            /\ min_act_eflow_rule(self, m, el, tt, oo)
            /\ max_rea_eflow_rule(self, m, el, tt, oo)
            /\ min_rea_eflow_rule(self, m, el, tt, oo)


-----------------------------------------------------------------------------
(* Enumeration of the satisfying assignments on the grid.  The assignment  *)
(* is assembled slice by slice (one period of one scenario at a time) and  *)
(* each rule is applied as soon as the variables it reads are assigned;    *)
(* Feasible keeps the assembled assignments that pass Satisfies.           *)

SliceKeys(n, t, o) == {<<i, t, o>> : i \in range(n)}

\* Field-wise union of two partial assignments over disjoint index sets.
Merge(a, b) == [fld \in DOMAIN a |-> a[fld] @@ b[fld]]

CGenPart(self, fl, x, t, o) ==
  LET K == SliceKeys(self.ncg, t, o)
      CU == {cu \in [K -> Dom_cu(fl)] :
               \A k \in K : inv_stat_rule(self, x @@ [cu |-> cu], k[1], t, o)}
      P(cu) == {p \in [K -> NonNegativeReals(self)] :
                  \A k \in K : /\ min_act_cgen_rule(self, [cu |-> cu, pcg |-> p], k[1], t, o)
                               /\ max_act_cgen_rule(self, [cu |-> cu, pcg |-> p], k[1], t, o)}
      Q(cu) == {q \in [K -> NonNegativeReals(self)] :
                  \A k \in K : /\ min_rea_cgen_rule(self, [cu |-> cu, qcg |-> q], k[1], t, o)
                               /\ max_rea_cgen_rule(self, [cu |-> cu, qcg |-> q], k[1], t, o)}
  IN UNION {{[cu |-> cu, pcg |-> p, qcg |-> q] : p \in P(cu), q \in Q(cu)} : cu \in CU}

EGenPart(self, fl, x, t, o) ==
  LET K == SliceKeys(self.neg, t, o)
      P(eu) == {p \in [K -> NonNegativeReals(self)] :
                  \A k \in K : /\ min_act_egen_rule(self, [eu |-> eu, peg |-> p], k[1], t, o)
                               /\ max_act_egen_rule(self, [eu |-> eu, peg |-> p], k[1], t, o)}
      Q(eu) == {q \in [K -> NonNegativeReals(self)] :
                  \A k \in K : /\ min_rea_egen_rule(self, [eu |-> eu, qeg |-> q], k[1], t, o)
                               /\ max_rea_egen_rule(self, [eu |-> eu, qeg |-> q], k[1], t, o)}
  IN UNION {{[eu |-> eu, peg |-> p, qeg |-> q] : p \in P(eu), q \in Q(eu)} : eu \in [K -> Dom_cu(fl)]}

CSolPart(self, fl, x, t, o) ==
  LET K == SliceKeys(self.ncs, t, o)
      P == {p \in [K -> NonNegativeReals(self)] :
              \A k \in K : /\ min_act_csol_rule(self, x @@ [pcs |-> p], k[1], t, o)
                           /\ max_act_csol_rule(self, x @@ [pcs |-> p], k[1], t, o)}
      Q == {q \in [K -> Reals(self)] :
              \A k \in K : /\ min_rea_csol_rule(self, x @@ [qcs |-> q], k[1], t, o)
                           /\ max_rea_csol_rule(self, x @@ [qcs |-> q], k[1], t, o)}
  IN {[pcs |-> p, qcs |-> q] : p \in P, q \in Q}

ESolPart(self, fl, x, t, o) ==
  LET K == SliceKeys(self.nes, t, o)
      P == {p \in [K -> NonNegativeReals(self)] :
              \A k \in K : /\ min_act_esol_rule(self, [pes |-> p], k[1], t, o)
                           /\ max_act_esol_rule(self, [pes |-> p], k[1], t, o)}
      Q == {q \in [K -> Reals(self)] :
              \A k \in K : /\ min_rea_esol_rule(self, [qes |-> q], k[1], t, o)
                           /\ max_rea_esol_rule(self, [qes |-> q], k[1], t, o)}
  IN {[pes |-> p, qes |-> q] : p \in P, q \in Q}

CWinPart(self, fl, x, t, o) ==
  LET K == SliceKeys(self.ncw, t, o)
      P == {p \in [K -> NonNegativeReals(self)] :
              \A k \in K : /\ min_act_cwin_rule(self, x @@ [pcw |-> p], k[1], t, o)
                           /\ max_act_cwin_rule(self, x @@ [pcw |-> p], k[1], t, o)}
      Q == {q \in [K -> Reals(self)] :
              \A k \in K : /\ min_rea_cwin_rule(self, x @@ [qcw |-> q], k[1], t, o)
                           /\ max_rea_cwin_rule(self, x @@ [qcw |-> q], k[1], t, o)}
  IN {[pcw |-> p, qcw |-> q] : p \in P, q \in Q}

EWinPart(self, fl, x, t, o) ==
  LET K == SliceKeys(self.new, t, o)
      P == {p \in [K -> NonNegativeReals(self)] :
              \A k \in K : /\ min_act_ewin_rule(self, [pew |-> p], k[1], t, o)
                           /\ max_act_ewin_rule(self, [pew |-> p], k[1], t, o)}
      Q == {q \in [K -> Reals(self)] :
              \A k \in K : /\ min_rea_ewin_rule(self, [qew |-> q], k[1], t, o)
                           /\ max_rea_ewin_rule(self, [qew |-> q], k[1], t, o)}
  IN {[pew |-> p, qew |-> q] : p \in P, q \in Q}

\* The battery's power bounds; its energy rules read several periods and
\* are applied by ScenSols.
BatPart(self, fl, x, t, o) ==
  LET K == SliceKeys(self.ncb, t, o)
      C == {p \in [K -> NonNegativeReals(self)] :
              \A k \in K : /\ min_act_cbat_rule(self, x @@ [pbc |-> p], k[1], t, o)
                           /\ max_act_cbat_rule(self, x @@ [pbc |-> p], k[1], t, o)}
      D == {p \in [K -> NonNegativeReals(self)] :
              \A k \in K : /\ min_act_dbat_rule(self, x @@ [pbd |-> p], k[1], t, o)
                           /\ max_act_dbat_rule(self, x @@ [pbd |-> p], k[1], t, o)}
      Q == {q \in [K -> Reals(self)] :
              \A k \in K : /\ min_rea_bat_rule(self, x @@ [qcd |-> q], k[1], t, o)
                           /\ max_rea_bat_rule(self, x @@ [qcd |-> q], k[1], t, o)}
  IN {[pbc |-> c, pbd |-> d, qcd |-> q] : c \in C, d \in D, q \in Q}

UnitParts(self, fl, x, t, o) ==
  {cg @@ eg @@ cs @@ es @@ cw @@ ew @@ bt :
     cg \in CGenPart(self, fl, x, t, o), eg \in EGenPart(self, fl, x, t, o),
     cs \in CSolPart(self, fl, x, t, o), es \in ESolPart(self, fl, x, t, o),
     cw \in CWinPart(self, fl, x, t, o), ew \in EWinPart(self, fl, x, t, o),
     bt \in BatPart(self, fl, x, t, o)}

\* Curtailment, shed fraction and line flows of the slice, for unit values u.
BusParts(self, fl, x, t, o, u) ==
  LET B == SliceKeys(self.nbb, t, o)
      L == SliceKeys(self.nel, t, o)
      SS == {s : s \in {s \in [B -> NonNegativeReals(self)] :
               \A k \in B : max_sol_shed_rule(self, x @@ u @@ [pss |-> s], k[1], t, o)}}
      WS == {w : w \in {w \in [B -> NonNegativeReals(self)] :
               \A k \in B : max_win_shed_rule(self, x @@ u @@ [pws |-> w], k[1], t, o)}}
      PL == {f : f \in {f \in [L -> Reals(self)] :
               \A k \in L : /\ max_act_eflow_rule(self, [pel |-> f], k[1], t, o)
                            /\ min_act_eflow_rule(self, [pel |-> f], k[1], t, o)}}
      QL == {f : f \in {f \in [L -> Reals(self)] :
               \A k \in L : /\ max_rea_eflow_rule(self, [qel |-> f], k[1], t, o)
                            /\ min_rea_eflow_rule(self, [qel |-> f], k[1], t, o)}}
      Act == {a \in {[pss |-> s, pws |-> w, pds |-> d, pel |-> f] :
                       s \in SS, w \in WS, d \in [B -> Dom_pds(fl)], f \in PL} :
                \A k \in B : act_bal_rule(self, u @@ a, k[1], t, o)}
      Rea(a) == {q \in QL : \A k \in B : rea_bal_rule(self, u @@ a @@ [qel |-> q], k[1], t, o)}
      Vol(a, q) == {v \in [B -> Dom_vol(self)] :
                      /\ vol_ref_rule(self, [vol |-> v], t, o)
                      /\ \A k \in L : flow_rule(self, a @@ [qel |-> q, vol |-> v], k[1], t, o)}
  IN UNION {UNION {{u @@ a @@ [qel |-> q, vol |-> v] : v \in Vol(a, q)} : q \in Rea(a)} : a \in Act}

\* The satisfying values of slice (t, o) under investment statuses x.
SliceSols(self, fl, x, t, o) ==
  UNION {BusParts(self, fl, x, t, o, u) : u \in UnitParts(self, fl, x, t, o)}

\* The periods t..ntt-1 of scenario o, before the battery energy rules.
RECURSIVE Periods(_, _, _, _, _)
Periods(self, fl, x, o, t) ==
  IF t = self.ntt - 1 THEN SliceSols(self, fl, x, t, o)
  ELSE {Merge(s, r) : s \in SliceSols(self, fl, x, t, o), r \in Periods(self, fl, x, o, t + 1)}

\* Scenario o over the whole horizon.
ScenSols(self, fl, x, o) ==
  {c \in Periods(self, fl, x, o, 0) :
     \A cb \in range(self.ncb) :
       /\ cop_eng_bat_rule(self, x @@ c, cb, o)
       /\ \A tt \in range(self.ntt) : /\ min_eng_bat_rule(self, x @@ c, cb, tt, o)
                                     /\ max_eng_bat_rule(self, x @@ c, cb, tt, o)}

\* The scenarios o..noo-1.
RECURSIVE Scenarios(_, _, _, _)
Scenarios(self, fl, x, o) ==
  IF o = self.noo - 1 THEN ScenSols(self, fl, x, o)
  ELSE {Merge(s, r) : s \in ScenSols(self, fl, x, o), r \in Scenarios(self, fl, x, o + 1)}

\* The investment statuses.
XSols(self, fl) ==
  {x \in [xg : [range(self.ncg) -> Dom_x(fl)], xs : [range(self.ncs) -> Dom_x(fl)],
          xw : [range(self.ncw) -> Dom_x(fl)], xb : [range(self.ncb) -> Dom_x(fl)]] :
     inv_bat_rule(self, x)}

\* The cost variables are fixed by the cost definition rules.
WithCosts(self, a) ==
  a @@ [inv |-> InvCost(self, a), opr |-> OprCost(self, a),
        she |-> self.sf * self.sb * ShedTerms(self, a),
        z |-> InvCost(self, a) + OprCost(self, a)]

\* The assignments on the grid that satisfy the model of solve(fl).
Feasible(self, fl) ==
  {m \in UNION {{WithCosts(self, x @@ c) : c \in Scenarios(self, fl, x, 0)} : x \in XSols(self, fl)} :
     Satisfies(self, fl, m)}

-----------------------------------------------------------------------------
(* inosys.solve: capture of the solved values (pyomo2dfinv, pyomo2dfopr,   *)
(* pyomo2dfoprm, DataFrame.T, round) and the CSV files.                    *)

\* Truncation to a multiple of 10^-dec instead of rounding.
round_down(num, den, dec) == (num * 10^dec) \div den

\* Python's round(x, dec) of the rational num/den: the nearest multiple of
\* 10^-dec, ties to even, given as a count of 10^-dec units.
round(num, den, dec) ==
  LET q == (num * 10^dec) \div den
      r == (num * 10^dec) % den
  IN IF 2 * r < den THEN q
     ELSE IF 2 * r > den THEN q + 1
     ELSE IF q % 2 = 0 THEN q ELSE q + 1

\* A DataFrame is a function of <<row label, column label>>.
\* df.loc[0, i] = pyomo_var[i].value
pyomo2dfinv(pyomo_var, index1) ==
  [rc \in {0} \X index1 |-> pyomo_var[rc[2]]]

\* The row label the loops give to (j, k): j*len(index3)+k
RowOf(j, k, index3) == j * Cardinality(index3) + k

\* The (j, k) whose value a row label keeps: the loops run over index2 and
\* then index3 in ascending order and a later assignment to the same label
\* replaces an earlier one.
LastAt(r, index2, index3) ==
  CHOOSE jk \in index2 \X index3 :
    /\ RowOf(jk[1], jk[2], index3) = r
    /\ \A q \in index2 \X index3 :
         RowOf(q[1], q[2], index3) = r => (q[1] < jk[1] \/ (q[1] = jk[1] /\ q[2] <= jk[2]))

\* df.loc[j*len(index3)+k, i] = round(pyomo_var[i,j,k].value, dec), dec = 6;
\* den is the denominator of the grid that the values of pyomo_var are
\* numerators over, the result a count of 10^-6 units.
pyomo2dfopr(pyomo_var, index1, index2, index3, den) ==
  [rc \in {RowOf(j, k, index3) : j \in index2, k \in index3} \X index1 |->
     round(pyomo_var[<<rc[2], LastAt(rc[1], index2, index3)[1], LastAt(rc[1], index2, index3)[2]>>], den, 6)]

\* df.loc[j*len(index3)+k, i] = pyomo_var[i,j,k].value
pyomo2dfoprm(pyomo_var, index1, index2, index3) ==
  [rc \in {RowOf(j, k, index3) : j \in index2, k \in index3} \X index1 |->
     pyomo_var[<<rc[2], LastAt(rc[1], index2, index3)[1], LastAt(rc[1], index2, index3)[2]>>]]

\* DataFrame.T left out.
T_keep(df) == df

\* DataFrame.T
T(df) == [rc \in {<<k[2], k[1]>> : k \in DOMAIN df} |-> df[<<rc[2], rc[1]>>]]

\* The grid of the values solve's model is solved on: powers are integers,
\* statuses, shed fractions, voltages and costs numerators over Den.
Unit == [pow |-> 1, frac |-> Den]

\* The attributes solve sets from the solved model m (lines 698 to 739);
\* unit gives the denominators of m's values.  Cost totals and the rounded
\* tables are in units of 10^-6, the other tables keep m's numerators.
Capture(self, m, unit) ==
  LET tt == range(self.ntt)
      oo == range(self.noo)
  IN [total |-> round(m.z, unit.frac, 6),
      total_inv |-> round(m.inv, unit.frac, 6),
      total_opr |-> round(m.opr, unit.frac, 6),
      xg_output |-> T(pyomo2dfinv(m.xg, range(self.ncg))),
      xs_output |-> T(pyomo2dfinv(m.xs, range(self.ncs))),
      xw_output |-> T(pyomo2dfinv(m.xw, range(self.ncw))),
      xb_output |-> T(pyomo2dfinv(m.xb, range(self.ncb))),
      cu_output |-> T(pyomo2dfoprm(m.cu, range(self.ncg), tt, oo)),
      eu_output |-> T(pyomo2dfoprm(m.eu, range(self.neg), tt, oo)),
      pcg_output |-> T(pyomo2dfopr(m.pcg, range(self.ncg), tt, oo, unit.pow)),
      qcg_output |-> T(pyomo2dfopr(m.qcg, range(self.ncg), tt, oo, unit.pow)),
      peg_output |-> T(pyomo2dfopr(m.peg, range(self.neg), tt, oo, unit.pow)),
      qeg_output |-> T(pyomo2dfopr(m.qeg, range(self.neg), tt, oo, unit.pow)),
      pcs_output |-> T(pyomo2dfopr(m.pcs, range(self.ncs), tt, oo, unit.pow)),
      qcs_output |-> T(pyomo2dfopr(m.qcs, range(self.ncs), tt, oo, unit.pow)),
      pes_output |-> T(pyomo2dfopr(m.pes, range(self.nes), tt, oo, unit.pow)),
      qes_output |-> T(pyomo2dfopr(m.qes, range(self.nes), tt, oo, unit.pow)),
      pcw_output |-> T(pyomo2dfopr(m.pcw, range(self.ncw), tt, oo, unit.pow)),
      qcw_output |-> T(pyomo2dfopr(m.qcw, range(self.ncw), tt, oo, unit.pow)),
      pew_output |-> T(pyomo2dfopr(m.pew, range(self.new), tt, oo, unit.pow)),
      qew_output |-> T(pyomo2dfopr(m.qew, range(self.new), tt, oo, unit.pow)),
      pbc_output |-> T(pyomo2dfopr(m.pbc, range(self.ncb), tt, oo, unit.pow)),
      pbd_output |-> T(pyomo2dfopr(m.pbd, range(self.ncb), tt, oo, unit.pow)),
      qcd_output |-> T(pyomo2dfopr(m.qcd, range(self.ncb), tt, oo, unit.pow)),
      pds_output |-> T(pyomo2dfoprm(m.pds, range(self.nbb), tt, oo)),
      pss_output |-> T(pyomo2dfopr(m.pss, range(self.nbb), tt, oo, unit.pow)),
      pws_output |-> T(pyomo2dfopr(m.pws, range(self.nbb), tt, oo, unit.pow)),
      vol_output |-> T(pyomo2dfoprm(m.vol, range(self.nbb), tt, oo)),
      pel_output |-> T(pyomo2dfopr(m.pel, range(self.nel), tt, oo, unit.pow)),
      qel_output |-> T(pyomo2dfopr(m.qel, range(self.nel), tt, oo, unit.pow))]

\* DataFrame.to_csv(path, index=False): the line of column labels, then
\* one line per row.  A file is a sequence of lines, a line a sequence of
\* cells; an empty DataFrame leaves the single empty line.
to_csv(df) ==
  LET nr == Cardinality({k[1] : k \in DOMAIN df})
      nc == Cardinality({k[2] : k \in DOMAIN df})
  IN << [c \in 1..nc |-> c - 1] >> \o [r \in 1..nr |-> [c \in 1..nc |-> df[<<r - 1, c - 1>>]]]

\* The files solve writes into the results directory (lines 747 to 790).
Files(cap) ==
  [n \in {"obj", "xg", "xs", "xw", "xb", "cu", "eu", "pcg", "qcg", "peg", "qeg",
          "pcs", "qcs", "pes", "qes", "pcw", "qcw", "pew", "qew", "pbc", "pbd",
          "qcd", "pds", "pss", "pws", "vol", "pel", "qel"} |->
     CASE n = "obj" -> << <<"total costs", cap.total>>,
                          <<"total investment costs", cap.total_inv>>,
                          <<"total operation costs", cap.total_opr>> >>
       [] n = "xg" -> to_csv(cap.xg_output)   [] n = "xs" -> to_csv(cap.xs_output)
       [] n = "xw" -> to_csv(cap.xw_output)   [] n = "xb" -> to_csv(cap.xb_output)
       [] n = "cu" -> to_csv(cap.cu_output)   [] n = "eu" -> to_csv(cap.eu_output)
       [] n = "pcg" -> to_csv(cap.pcg_output) [] n = "qcg" -> to_csv(cap.qcg_output)
       [] n = "peg" -> to_csv(cap.peg_output) [] n = "qeg" -> to_csv(cap.qeg_output)
       [] n = "pcs" -> to_csv(cap.pcs_output) [] n = "qcs" -> to_csv(cap.qcs_output)
       [] n = "pes" -> to_csv(cap.pes_output) [] n = "qes" -> to_csv(cap.qes_output)
       [] n = "pcw" -> to_csv(cap.pcw_output) [] n = "qcw" -> to_csv(cap.qcw_output)
       [] n = "pew" -> to_csv(cap.pew_output) [] n = "qew" -> to_csv(cap.qew_output)
       [] n = "pbc" -> to_csv(cap.pbc_output) [] n = "pbd" -> to_csv(cap.pbd_output)
       [] n = "qcd" -> to_csv(cap.qcd_output) [] n = "pds" -> to_csv(cap.pds_output)
       [] n = "pss" -> to_csv(cap.pss_output) [] n = "pws" -> to_csv(cap.pws_output)
       [] n = "vol" -> to_csv(cap.vol_output) [] n = "pel" -> to_csv(cap.pel_output)
       [] n = "qel" -> to_csv(cap.qel_output)]

-----------------------------------------------------------------------------
(* inosys.solve: the solver call.  The solver is outside the program: it   *)
(* hands back some assignment that satisfies the model, with termination   *)
(* condition "optimal" when no satisfying assignment costs less and a      *)
(* non-optimal one ("feasible") otherwise.                                 *)

\* What a solver call on folder f with flags fl can load into the model.
Outcomes(f, fl) ==
  LET F == Feasible(Self[f], fl)
  IN {[folder |-> f, flags |-> fl, m |-> n,
       term |-> IF \A r \in F : n.z <= r.z THEN "optimal" ELSE "feasible",
       cap |-> Capture(Self[f], n, Unit),
       files |-> Files(Capture(Self[f], n, Unit))] : n \in F}

\* Computed once for all folders and flags.
Solutions == UNION {Outcomes(f, fl) : f \in Folders, fl \in Flags}

-----------------------------------------------------------------------------
(* State of one inosys object and of the results directory of its folder. *)

VARIABLES
  inp_folder,  \* self.inp_folder
  outdir,      \* self.outdir
  output,      \* self.output: <<>> until solve sets it, then <<model>>
  captured,    \* self.total ... self.qel_output: <<>> until set
  result,      \* the last solver call that ended: solve's flags, the termination
  disk,        \* the directory inp_folder/results: whether it exists, its files
  ret,         \* the last call on the object: operation, exception, value
  returned,    \* history: some solve call on this object returned normally
  listing,     \* the input folder when the object was constructed
  calls,       \* two solve calls running at once: each call's position and locals
  fs,          \* the results directories those two calls work on
  environ,     \* os.environ['NEOS_EMAIL'] of the process of those two calls
  geol,        \* rousys: self.geol, one <<Longtitude, Latitude>> per node
  rou_dist,    \* rousys: the rows of rou_dist.csv, <<>> until written
  elin_dist,   \* rousys: the rows of elin_dist.csv, <<>> until written
  labels,      \* datsys: the days of the clustered data in each cluster
  dtim_dist    \* datsys: the column dt of dtim_dist.csv, <<>> until written

\* The state of the object and its folder, and the state of the concurrent
\* calls.
one == <<inp_folder, outdir, output, captured, result, disk, ret, returned, listing>>
conc == <<calls, fs, environ>>
\* The state of the data-preparation tools (rousys, datsys).
tool == <<geol, rou_dist, elin_dist, labels, dtim_dist>>
vars == <<one, conc, tool>>

\* self.inp_folder + os.sep + 'results'
ResultsPath(f) == f \o "/results"

NoDir == [exists |-> FALSE, files |-> <<>>]

\* A results directory left in the folder by another run: that run's files.
StaleDirs(f) ==
  {[exists |-> TRUE, files |-> s.files] :
     s \in {s \in Solutions : s.folder = f /\ s.term = "optimal" /\ s.flags.onlyopr /\ ~s.flags.commit}}
  \cup {[exists |-> TRUE, files |-> <<>>]}

Call(op, raised, value) == [op |-> op, raised |-> raised, value |-> value]

\* The reads of __init__ without the last one.
Required_short ==
  <<"cgen_dist.csv", "egen_dist.csv", "csol_dist.csv", "esol_dist.csv", "cwin_dist.csv",
    "ewin_dist.csv", "cbat_dist.csv", "elin_dist.csv", "pdem_dist.csv", "qdem_dist.csv",
    "prep_dist.csv", "qrep_dist.csv", "psol_dist.csv", "qsol_dist.csv", "pwin_dist.csv",
    "qwin_dist.csv">>

\* The files __init__ reads, in the order it reads them.
Required ==
  <<"cgen_dist.csv", "egen_dist.csv", "csol_dist.csv", "esol_dist.csv", "cwin_dist.csv",
    "ewin_dist.csv", "cbat_dist.csv", "elin_dist.csv", "pdem_dist.csv", "qdem_dist.csv",
    "prep_dist.csv", "qrep_dist.csv", "psol_dist.csv", "qsol_dist.csv", "pwin_dist.csv",
    "qwin_dist.csv", "dtim_dist.csv">>

\* The folders __init__ can be given: a folder with all the files, a folder
\* without one of them, no folder at all.
Listings ==
  LET all == {Required[i] : i \in DOMAIN Required}
  IN {[exists |-> TRUE, names |-> all]}
     \cup {[exists |-> TRUE, names |-> all \ {n}] : n \in all}
     \cup {[exists |-> FALSE, names |-> {}]}

\* pd.read_csv(inp_folder + os.sep + name) finds the file.
isfile(l, name) == l.exists /\ name \in l.names

\* The exception of the first pd.read_csv of __init__ that fails, if any.
init_error(l) ==
  IF \E i \in DOMAIN Required : ~isfile(l, Required[i]) THEN "FileNotFoundError" ELSE "none"

\* inosys.__init__ on one of the folders; no call made yet.
Init ==
  /\ inp_folder \in Folders
  /\ listing \in Listings
  /\ outdir = ""
  /\ output = <<>>
  /\ captured = <<>>
  /\ result = <<>>
  /\ disk \in {NoDir} \cup StaleDirs(inp_folder)
  /\ ret = Call("__init__", init_error(listing), <<>>)
  /\ returned = FALSE
  /\ calls = <<>> /\ fs = <<>> /\ environ = <<>>
  /\ geol = <<>> /\ rou_dist = <<>> /\ elin_dist = <<>> /\ labels = <<>> /\ dtim_dist = <<>>

\* __init__ returned: there is an object to call.
Constructed == init_error(listing) = "none"

\* What the solver can load for the object's folder under flags fl.
Loadable(fl) == {s \in Solutions : s.folder = inp_folder /\ s.flags = fl}

\* opt.solve raises: the solver is not installed or cannot be reached.
SolveUnavailable(fl) ==
  /\ ret' = Call("solve", "ApplicationError", <<>>)
  /\ UNCHANGED <<inp_folder, outdir, output, captured, result, disk, returned, listing, conc, tool>>

\* The model has no satisfying assignment: the solver loads no values, solve
\* stores the model (line 696) and round(None, 6) raises at line 698.
SolveInfeasible(fl) ==
  /\ Loadable(fl) = {}
  /\ result' = << [flags |-> fl, term |-> "infeasible"] >>
  /\ output' = << [loaded |-> FALSE, values |-> <<>>] >>
  /\ ret' = Call("solve", "TypeError", <<>>)
  /\ UNCHANGED <<inp_folder, outdir, captured, disk, returned, listing, conc, tool>>

\* The solver loads a satisfying assignment; solve never reads the
\* termination condition: it captures the values, replaces the results
\* directory and writes the files.
SolveLoaded(fl) ==
  \E s \in Loadable(fl) :
    /\ result' = << [flags |-> fl, term |-> s.term] >>
    /\ output' = << [loaded |-> TRUE, values |-> s.m] >>
    /\ captured' = << s.cap >>
    /\ outdir' = ResultsPath(inp_folder)
    /\ disk' = [exists |-> TRUE, files |-> s.files]
    /\ ret' = Call("solve", "none", <<>>)
    /\ returned' = TRUE
    /\ UNCHANGED <<inp_folder, listing, conc, tool>>

\* inosys.solve(invest, onlyopr, commit)
solve(fl) == SolveUnavailable(fl) \/ SolveInfeasible(fl) \/ SolveLoaded(fl)

-----------------------------------------------------------------------------
(* The result accessors. *)

\* os.path.exists(path) for the one directory the model holds.
exists(path) == path = ResultsPath(inp_folder) /\ disk.exists

\* The guard looking for the folder's results directory instead of outdir.
HasResults_folder == exists(ResultsPath(inp_folder))

\* The accessors' guard: self.outdir != '' and os.path.exists(self.outdir)
HasResults == outdir # "" /\ exists(outdir)

\* The exception pd.read_csv raises on file name of the directory, if any.
read_error(name) ==
  IF name \notin DOMAIN disk.files THEN "FileNotFoundError"
  ELSE IF Len(disk.files[name][1]) = 0 THEN "EmptyDataError"
  ELSE "none"

\* pd.read_csv(path): the first line is the header.
\* pd.read_csv(path, header=None): every line is a row.
read_csv(name, header) ==
  LET lines == disk.files[name]
  IN IF header THEN [columns |-> lines[1], data |-> Tail(lines)]
     ELSE [columns |-> [c \in 1..Len(lines[1]) |-> c - 1], data |-> lines]

\* The accessors' else branch: print, then a bare raise.
NeedSolve(op) == Call(op, "RuntimeError", <<>>)

\* resWind, resBat, resSolar: nameplate pmax of the input table times the
\* investment status read back from the file (capacity times Den).
InstalledCapacity(op, name, table) ==
  IF ~HasResults THEN NeedSolve(op)
  ELSE IF read_error(name) # "none" THEN Call(op, read_error(name), <<>>)
  ELSE LET i == read_csv(name, FALSE)
           inv_values == IF Len(i.data) > 1
                         THEN [k \in 1..(Len(i.data) - 1) |-> i.data[k + 1][1]]
                         ELSE [k \in 1..Len(i.data) |-> i.data[k][1]]
       IN IF Len(inv_values) \notin {Len(table), 1} THEN Call(op, "ValueError", <<>>)
          ELSE Call(op, "none",
                    [u \in 1..Len(table) |->
                       [capacity |-> table[u].pmax * inv_values[IF Len(inv_values) = 1 THEN 1 ELSE u],
                        bus |-> table[u].bus]])

resCost ==
  /\ ret' = IF ~HasResults THEN NeedSolve("resCost")
            ELSE IF read_error("obj") # "none" THEN Call("resCost", read_error("obj"), <<>>)
            ELSE Call("resCost", "none", read_csv("obj", TRUE))
  /\ UNCHANGED <<inp_folder, outdir, output, captured, result, disk, returned, listing, conc, tool>>

resWind ==
  /\ ret' = InstalledCapacity("resWind", "xw", Folder(inp_folder).cwin)
  /\ UNCHANGED <<inp_folder, outdir, output, captured, result, disk, returned, listing, conc, tool>>

resBat ==
  /\ ret' = InstalledCapacity("resBat", "xb", Folder(inp_folder).cbat)
  /\ UNCHANGED <<inp_folder, outdir, output, captured, result, disk, returned, listing, conc, tool>>

resSolar ==
  /\ ret' = InstalledCapacity("resSolar", "xs", Folder(inp_folder).csol)
  /\ UNCHANGED <<inp_folder, outdir, output, captured, result, disk, returned, listing, conc, tool>>

\* resConv replaces a column of the wrong length by its last value repeated
\* (or by zeros) instead of failing.
resConv ==
  /\ ret' =
       IF ~HasResults THEN NeedSolve("resConv")
       ELSE IF read_error("xg") # "none" THEN Call("resConv", read_error("xg"), <<>>)
       ELSE LET cgen == Folder(inp_folder).cgen
                i == read_csv("xg", FALSE)
                read == IF Len(i.data) > 1
                        THEN [k \in 1..(Len(i.data) - 1) |-> i.data[k + 1][1]]
                        ELSE [k \in 1..Len(i.data) |-> i.data[k][1]]
                inv_values == IF Len(read) # Len(cgen)
                              THEN IF Len(read) > 0 THEN [u \in 1..Len(cgen) |-> read[Len(read)]]
                                   ELSE [u \in 1..Len(cgen) |-> 0]
                              ELSE read
            IN Call("resConv", "none",
                    [u \in 1..Len(cgen) |->
                       [capacity |-> cgen[u].pmax * inv_values[u], bus |-> cgen[u].bus]])
  /\ UNCHANGED <<inp_folder, outdir, output, captured, result, disk, returned, listing, conc, tool>>

resCurt ==
  /\ ret' =
       IF ~HasResults THEN NeedSolve("resCurt")
       ELSE IF read_error("pds") # "none" THEN Call("resCurt", read_error("pds"), <<>>)
       ELSE IF read_error("pss") # "none" THEN Call("resCurt", read_error("pss"), <<>>)
       ELSE IF read_error("pws") # "none" THEN Call("resCurt", read_error("pws"), <<>>)
       ELSE Call("resCurt", "none",
                 [demand_shedding |-> read_csv("pds", TRUE),
                  solar_curtailment |-> read_csv("pss", TRUE),
                  wind_curtailment |-> read_csv("pws", TRUE)])
  /\ UNCHANGED <<inp_folder, outdir, output, captured, result, disk, returned, listing, conc, tool>>

Next ==
  \/ \E fl \in Flags : Constructed /\ solve(fl)
  \/ Constructed /\ resCost
  \/ Constructed /\ resWind
  \/ Constructed /\ resBat
  \/ Constructed /\ resSolar
  \/ Constructed /\ resConv
  \/ Constructed /\ resCurt

Spec == Init /\ [][Next]_vars

-----------------------------------------------------------------------------
(* The capture step of solve on values that are not multiples of 10^-6:    *)
(* a solved model with one unit of every type, one bus, one line, one      *)
(* period of two scenarios, whose values are numerators over SampleDen.    *)

\* The denominator of the solved values of the sample.
SampleDen == 6

\* The variable groups of the model: investment statuses; the groups solve
\* reads with pyomo2dfoprm; the groups it reads with pyomo2dfopr; and the
\* number of units each group is indexed by.
InvGroups == {"xg", "xs", "xw", "xb"}
ExactGroups == {"cu", "eu", "pds", "vol"}
RoundedGroups == {"pcg", "qcg", "peg", "qeg", "pcs", "qcs", "pes", "qes", "pcw", "qcw",
                  "pew", "qew", "pbc", "pbd", "qcd", "pss", "pws", "pel", "qel"}
OprGroups == ExactGroups \cup RoundedGroups

UnitsOf(self, g) ==
  CASE g \in {"xg", "cu", "pcg", "qcg"} -> self.ncg
    [] g \in {"eu", "peg", "qeg"} -> self.neg
    [] g \in {"xs", "pcs", "qcs"} -> self.ncs
    [] g \in {"pes", "qes"} -> self.nes
    [] g \in {"xw", "pcw", "qcw"} -> self.ncw
    [] g \in {"pew", "qew"} -> self.new
    [] g \in {"xb", "pbc", "pbd", "qcd"} -> self.ncb
    [] g \in {"pds", "pss", "pws", "vol"} -> self.nbb
    [] g \in {"pel", "qel"} -> self.nel

\* Only the counts of the sample instance matter to the capture step.
SampleSelf ==
  [ncg |-> 1, neg |-> 1, ncs |-> 1, nes |-> 1, ncw |-> 1, new |-> 1, ncb |-> 1,
   nbb |-> 1, nel |-> 1, ntt |-> 1, noo |-> 2]

SampleUnit == [pow |-> SampleDen, frac |-> SampleDen]

\* The solved model in which every value of group g is v/SampleDen, every
\* other value 1/SampleDen and the costs 0.
SampleModel(g, v) ==
  [f \in InvGroups \cup OprGroups \cup {"z", "inv", "opr", "she"} |->
     IF f \in {"z", "inv", "opr", "she"} THEN 0
     ELSE IF f \in InvGroups
          THEN [i \in range(UnitsOf(SampleSelf, f)) |-> IF f = g THEN v ELSE 1]
          ELSE [k \in Keys(UnitsOf(SampleSelf, f), SampleSelf) |-> IF f = g THEN v ELSE 1]]

\* solve has reached line 696 with the solved model loaded.
InitReport ==
  /\ inp_folder = "sample"
  /\ outdir = ""
  /\ \E g \in InvGroups \cup OprGroups, v \in 0..SampleDen :
       output = << [loaded |-> TRUE, values |-> SampleModel(g, v)] >>
  /\ captured = <<>>
  /\ result = <<>>
  /\ disk = NoDir
  /\ ret = Call("__init__", "none", <<>>)
  /\ returned = FALSE
  /\ listing = [exists |-> TRUE, names |-> {Required[i] : i \in DOMAIN Required}]
  /\ calls = <<>> /\ fs = <<>> /\ environ = <<>>
  /\ geol = <<>> /\ rou_dist = <<>> /\ elin_dist = <<>> /\ labels = <<>> /\ dtim_dist = <<>>

\* Lines 698 to 739 of solve.
CaptureValues ==
  /\ captured = <<>>
  /\ captured' = << Capture(SampleSelf, output[1].values, SampleUnit) >>
  /\ UNCHANGED <<inp_folder, outdir, output, result, disk, ret, returned, listing, conc, tool>>

NextReport == CaptureValues

SpecReport == InitReport /\ [][NextReport]_vars

-----------------------------------------------------------------------------
(* Two solve calls running at once in one process, each on its own inosys  *)
(* object: the steps of solve that touch what is outside the object, the   *)
(* process environment and the results directory (lines 689 to 790).       *)

Insts == {1, 2}

\* The input folders the two objects were constructed on.
ConcFolders == {"net", "ren"}

\* The solemail argument of each call.
solemail(i) == IF i = 1 THEN "first@example.org" ELSE "second@example.org"

\* The files solve writes, in the order it writes them: obj.csv, the four
\* investment tables, the operational tables.  The files of one batch are
\* taken as written in one step.
Written ==
  << {"obj"},
     {"xg", "xs", "xw", "xb"},
     {"cu", "eu", "pcg", "qcg", "peg", "qeg", "pcs", "qcs", "pes", "qes", "pcw", "qcw",
      "pew", "qew", "pbc", "pbd", "qcd", "pds", "pss", "pws", "vol", "pel", "qel"} >>

\* A results directory: whether it exists and, for each file name, the call
\* whose values the file holds (0: no such file).
EmptyDir(e) == [exists |-> e, files |-> [n \in UNION {Written[k] : k \in DOMAIN Written} |-> 0]]

\* Both calls are about to choose their solver; the results directories may
\* be there from an earlier run.
InitConc ==
  /\ calls \in [Insts -> [folder : ConcFolders, neos : BOOLEAN, pc : {"start"},
                          found : {FALSE}, k : {0}, sent : {""}, raised : {"none"}]]
  /\ fs \in [ConcFolders -> {EmptyDir(FALSE), EmptyDir(TRUE)}]
  /\ environ = ""
  /\ inp_folder = "" /\ outdir = "" /\ output = <<>> /\ captured = <<>> /\ result = <<>>
  /\ disk = NoDir /\ ret = Call("__init__", "none", <<>>) /\ returned = FALSE
  /\ listing = [exists |-> TRUE, names |-> {Required[i] : i \in DOMAIN Required}]
  /\ geol = <<>> /\ rou_dist = <<>> /\ elin_dist = <<>> /\ labels = <<>> /\ dtim_dist = <<>>

\* Line 690: os.environ['NEOS_EMAIL'] = solemail
SetEmail(i) ==
  /\ calls[i].pc = "start" /\ calls[i].neos
  /\ environ' = solemail(i)
  /\ calls' = [calls EXCEPT ![i].pc = "submit"]
  /\ UNCHANGED <<fs, one, tool>>

\* Lines 691 and 692: the NEOS solver manager submits the model with the
\* address it finds in os.environ['NEOS_EMAIL'].
Submit(i) ==
  /\ calls[i].pc = "submit"
  /\ calls' = [calls EXCEPT ![i].sent = environ, ![i].pc = "outdir"]
  /\ UNCHANGED <<fs, environ, one, tool>>

\* Line 694: a local solver; then the capture, which stays in the object.
LocalSolve(i) ==
  /\ calls[i].pc = "start" /\ ~calls[i].neos
  /\ calls' = [calls EXCEPT ![i].pc = "outdir"]
  /\ UNCHANGED <<fs, environ, one, tool>>

\* Lines 742 and 743: self.outdir is set and os.path.exists(self.outdir)
\* evaluated.
SetOutdir(i) ==
  /\ calls[i].pc = "outdir"
  /\ calls' = [calls EXCEPT ![i].found = fs[calls[i].folder].exists,
                            ![i].pc = IF fs[calls[i].folder].exists THEN "rmtree" ELSE "makedirs"]
  /\ UNCHANGED <<fs, environ, one, tool>>

\* Line 744: shutil.rmtree(self.outdir)
Rmtree(i) ==
  /\ calls[i].pc = "rmtree"
  /\ IF fs[calls[i].folder].exists
     THEN /\ fs' = [fs EXCEPT ![calls[i].folder] = EmptyDir(FALSE)]
          /\ calls' = [calls EXCEPT ![i].pc = "makedirs"]
     ELSE /\ calls' = [calls EXCEPT ![i].raised = "FileNotFoundError", ![i].pc = "raised"]
          /\ UNCHANGED fs
  /\ UNCHANGED <<environ, one, tool>>

\* Line 745: os.makedirs(self.outdir)
Makedirs(i) ==
  /\ calls[i].pc = "makedirs"
  /\ IF fs[calls[i].folder].exists
     THEN /\ calls' = [calls EXCEPT ![i].raised = "FileExistsError", ![i].pc = "raised"]
          /\ UNCHANGED fs
     ELSE /\ fs' = [fs EXCEPT ![calls[i].folder] = EmptyDir(TRUE)]
          /\ calls' = [calls EXCEPT ![i].pc = "write"]
  /\ UNCHANGED <<environ, one, tool>>

\* Lines 747 to 790: the files of the next batch are opened for writing and
\* written; solve returns after the last batch.
WriteFile(i) ==
  /\ calls[i].pc = "write"
  /\ IF fs[calls[i].folder].exists
     THEN /\ fs' = [fs EXCEPT ![calls[i].folder].files =
                             [n \in DOMAIN @ |-> IF n \in Written[calls[i].k + 1] THEN i ELSE @[n]]]
          /\ calls' = [calls EXCEPT ![i].k = @ + 1,
                                    ![i].pc = IF calls[i].k + 1 = Len(Written) THEN "done" ELSE "write"]
     ELSE /\ calls' = [calls EXCEPT ![i].raised = "OSError", ![i].pc = "raised"]
          /\ UNCHANGED fs
  /\ UNCHANGED <<environ, one, tool>>

NextConc ==
  \E i \in Insts :
    \/ SetEmail(i)
    \/ Submit(i)
    \/ LocalSolve(i)
    \/ SetOutdir(i)
    \/ Rmtree(i)
    \/ Makedirs(i)
    \/ WriteFile(i)

SpecConc == InitConc /\ [][NextConc]_vars

-----------------------------------------------------------------------------
(* pyeplan.routing.rousys: min_spn_tre on the nodes of geol_dist.csv.      *)
(* Coordinates are thousandths of a degree, distances millimetres.         *)

\* Largest number of nodes in geol_dist.csv.
MaxNodes == 4

\* The rows geol_dist.csv is drawn from: <<Longtitude, Latitude>>.
Places == {<<32400, 250>>, <<32400, 260>>, <<32408, 255>>, <<32410, 250>>}

\* distance(origin, destination) with lat1, lon1 = origin and lat2, lon2 =
\* destination: the value of the haversine formula, rounded to the
\* millimetre, for the coordinates of Places taken in either order.
distance(origin, destination) ==
  LET key == {origin, destination}
  IN CASE origin = destination -> 0
       [] key = {<<32400, 250>>, <<32400, 260>>} -> 938850
       [] key = {<<250, 32400>>, <<260, 32400>>} -> 1111949
       [] key = {<<32400, 250>>, <<32408, 255>>} -> 1005811
       [] key = {<<250, 32400>>, <<255, 32408>>} -> 1049004
       [] key = {<<32400, 250>>, <<32410, 250>>} -> 1111949
       [] key = {<<250, 32400>>, <<250, 32410>>} -> 1111939
       [] key = {<<32400, 260>>, <<32408, 255>>} -> 1005811
       [] key = {<<260, 32400>>, <<255, 32408>>} -> 1049003
       [] key = {<<32400, 260>>, <<32410, 250>>} -> 1455257
       [] key = {<<260, 32400>>, <<250, 32410>>} -> 1572526
       [] key = {<<32408, 255>>, <<32410, 250>>} -> 519397
       [] key = {<<255, 32408>>, <<250, 32410>>} -> 598802

\* self.r, self.x, self.p, self.q of the cable chosen at construction.
Cable == [r |-> 2, x |-> 1, p |-> 3, q |-> 3]

\* (a, b, ...) < (c, d, ...) as Python orders tuples of equal length.
RECURSIVE tuple_lt(_, _)
tuple_lt(a, b) ==
  /\ a # <<>>
  /\ Head(a) < Head(b) \/ (Head(a) = Head(b) /\ tuple_lt(Tail(a), Tail(b)))

\* sorted(S, key=...): the elements of S as a sequence, by increasing key.
RECURSIVE sorted(_, _)
sorted(S, key) ==
  IF S = {} THEN <<>>
  ELSE LET e == CHOOSE e \in S : \A f \in S \ {e} : tuple_lt(key[e], key[f])
       IN <<e>> \o sorted(S \ {e}, key)

\* The weight min_spn_tre gives the edge between nodes e[1] and e[2] of G:
\* distance((Longtitude[n], Latitude[n]), (Longtitude[m], Latitude[m])).
weight(g, e) == distance(g[e[1] + 1], g[e[2] + 1])

\* nx.minimum_spanning_tree(G), Kruskal: the edges of G, each once as
\* (n, m) with n < m in the order G lists them, sorted by weight (the sort
\* is stable); an edge is kept when its end nodes lie in different subtrees.
minimum_spanning_tree(g) ==
  LET node == Len(g)
      E == {e \in (0..(node - 1)) \X (0..(node - 1)) : e[1] < e[2]}
      by_weight == [e \in E |-> <<weight(g, e), e[1], e[2]>>]
      RECURSIVE kruskal(_, _, _)
      kruskal(edges, subtrees, tree) ==
        IF edges = <<>> THEN tree
        ELSE LET u == Head(edges)[1]
                 v == Head(edges)[2]
             IN IF subtrees[u] # subtrees[v]
                THEN kruskal(Tail(edges),
                             [n \in DOMAIN subtrees |-> IF subtrees[n] = subtrees[v] THEN subtrees[u] ELSE subtrees[n]],
                             tree \cup {Head(edges)})
                ELSE kruskal(Tail(edges), subtrees, tree)
  IN kruskal(sorted(E, by_weight), [n \in 0..(node - 1) |-> n], {})

\* rousys.__init__ on a folder whose geol_dist.csv has 2 to MaxNodes rows.
InitRoute ==
  /\ geol \in UNION {[1..n -> Places] : n \in 2..MaxNodes}
  /\ rou_dist = <<>> /\ elin_dist = <<>>
  /\ labels = <<>> /\ dtim_dist = <<>>
  /\ inp_folder = "" /\ outdir = "" /\ output = <<>> /\ captured = <<>> /\ result = <<>>
  /\ disk = NoDir /\ ret = Call("__init__", "none", <<>>) /\ returned = FALSE
  /\ listing = [exists |-> TRUE, names |-> {"geol_dist.csv", "cblt_dist.csv"}]
  /\ calls = <<>> /\ fs = <<>> /\ environ = <<>>

\* rousys.min_spn_tre: the rows of sorted(T.edges(data=True)) go to
\* rou_dist.csv and, with the cable parameters, to elin_dist.csv.
min_spn_tre ==
  /\ LET tree == minimum_spanning_tree(geol)
         rows == sorted(tree, [e \in tree |-> e])
     IN /\ rou_dist' = [i \in 1..Len(rows) |->
                          [from |-> rows[i][1], to |-> rows[i][2], distance |-> weight(geol, rows[i])]]
        /\ elin_dist' = [i \in 1..Len(rows) |->
                           [from |-> rows[i][1], to |-> rows[i][2], ini |-> 1,
                            res |-> Cable.r * weight(geol, rows[i]),
                            rea |-> Cable.x * weight(geol, rows[i]),
                            sus |-> 0, pmax |-> Cable.p, qmax |-> Cable.q]]
  /\ ret' = Call("min_spn_tre", "none", <<>>)
  /\ UNCHANGED <<inp_folder, outdir, output, captured, result, disk, returned, listing, conc,
                 geol, labels, dtim_dist>>

NextRoute == min_spn_tre

SpecRoute == InitRoute /\ [][NextRoute]_vars

-----------------------------------------------------------------------------
(* pyeplan.dataproc.datsys: the scenario durations of kmeans_clust.  The   *)
(* clustering itself is scikit-learn's; the model takes its outcome, the   *)
(* number of days in each cluster.  The durations are binary floating-     *)
(* point numbers: the model rounds to the nearest number of Prec           *)
(* significant bits, ties to even, as the doubles of the program do with   *)
(* 53 bits, and holds a number as an integer count of 1/Fix.               *)

\* Largest n_clust.
MaxClust == 3
\* Largest difference between the days of the clustered data and 365.
MaxOff == 2
\* Significant bits of a floating-point number.
Prec == 12
\* The days the durations are meant to add up to.
Year == 365

\* The unit of a floating-point number of the model is 1/Fix.
Fix == 2^(Prec + 2)

\* The days of a cluster, the last cluster having the remaining ones.
Days == {1, 37, 100, 120}

\* The quotient num/den rounded toward zero to Prec significant bits.
float_trunc(num, den) ==
  LET a == IF num < 0 THEN -num ELSE num
      Q == CHOOSE q \in {2^k : k \in 0..Prec} :
             q * 2^(Prec - 1) * den <= a /\ a < 2 * q * 2^(Prec - 1) * den
  IN IF num = 0 THEN 0
     ELSE (IF num < 0 THEN -1 ELSE 1) * (a \div (den * Q)) * Q

\* The floating-point number nearest to num/den (num a count of 1/Fix, den
\* a positive integer), ties to even: the result of the division
\* (365 - dtim_tot)/self.n_clust and of the addition ini_dtim[n] += share.
\* Q is the spacing of the floating-point numbers around the quotient.
float(num, den) ==
  LET a == IF num < 0 THEN -num ELSE num
      Q == CHOOSE q \in {2^k : k \in 0..Prec} :
             q * 2^(Prec - 1) * den <= a /\ a < 2 * q * 2^(Prec - 1) * den
      k == a \div (den * Q)
      r == a % (den * Q)
      n == IF 2 * r > den * Q \/ (2 * r = den * Q /\ k % 2 = 1) THEN k + 1 ELSE k
  IN IF num = 0 THEN 0
     ELSE (IF num < 0 THEN -1 ELSE 1) * n * Q

\* datsys with n_clust in 1..MaxClust after KMeans has labelled the days:
\* labels[n] is sum(PV_labels == n), the days of the data being within
\* MaxOff of 365.
InitClust ==
  /\ labels \in {Append(l, t - Sum(l)) :
                    l \in {l \in UNION {[1..(n - 1) -> Days] : n \in 1..MaxClust} : Sum(l) < Year - MaxOff},
                    t \in (Year - MaxOff)..(Year + MaxOff)}
  /\ dtim_dist = <<>>
  /\ geol = <<>> /\ rou_dist = <<>> /\ elin_dist = <<>>
  /\ inp_folder = "" /\ outdir = "" /\ output = <<>> /\ captured = <<>> /\ result = <<>>
  /\ disk = NoDir /\ ret = Call("__init__", "none", <<>>) /\ returned = FALSE
  /\ listing = [exists |-> TRUE, names |-> {}]
  /\ calls = <<>> /\ fs = <<>> /\ environ = <<>>

\* datsys.kmeans_clust, lines 528 to 536: every cluster's days plus the
\* share (365 - dtim_tot)/n_clust, written as column dt.
kmeans_clust ==
  /\ LET n_clust == Len(labels)
         dtim_tot == Sum(labels)
         share == float((Year - dtim_tot) * Fix, n_clust)
     IN dtim_dist' = [n \in 1..n_clust |-> float(labels[n] * Fix + share, 1)]
  /\ ret' = Call("kmeans_clust", "none", <<>>)
  /\ UNCHANGED <<inp_folder, outdir, output, captured, result, disk, returned, listing, conc,
                 geol, rou_dist, elin_dist, labels>>

NextClust == kmeans_clust

SpecClust == InitClust /\ [][NextClust]_vars

-----------------------------------------------------------------------------
(* Properties.  m is the assignment the solver loaded in the last solve    *)
(* call that ended, fl are that call's flags.                              *)

Obj == Self[inp_folder]
Loaded == output # <<>> /\ output[1].loaded
LoadedM == output[1].values
LoadedFl == result[1].flags
Slices == {<<tt, oo>> : tt \in range(Obj.ntt), oo \in range(Obj.noo)}

\* Total active dispatch of the generating units at bus bb.
GenAt(m, bb, tt, oo) ==
    Sum([cg \in At(Obj, "cgen", bb) |-> m.pcg[<<cg, tt, oo>>]])
  + Sum([eg \in At(Obj, "egen", bb) |-> m.peg[<<eg, tt, oo>>]])
  + Sum([cs \in At(Obj, "csol", bb) |-> m.pcs[<<cs, tt, oo>>]])
  + Sum([es \in At(Obj, "esol", bb) |-> m.pes[<<es, tt, oo>>]])
  + Sum([cw \in At(Obj, "cwin", bb) |-> m.pcw[<<cw, tt, oo>>]])
  + Sum([ew \in At(Obj, "ewin", bb) |-> m.pew[<<ew, tt, oo>>]])

\* Battery discharge minus charge at bus bb.
NetBatAt(m, bb, tt, oo) ==
  Sum([cb \in At(Obj, "cbat", bb) |-> m.pbd[<<cb, tt, oo>>] - m.pbc[<<cb, tt, oo>>]])

Inflow(m, bb, tt, oo) ==
  Sum([el \in {l \in DOMAIN Obj.elin : Obj.elin[l].to = bb} |-> m.pel[<<el, tt, oo>>]])

Outflow(m, bb, tt, oo) ==
  Sum([el \in {l \in DOMAIN Obj.elin : Obj.elin[l].from = bb} |-> m.pel[<<el, tt, oo>>]])

\* Demand times scenario multiplier times (1 - shed fraction), times Den.
Served(m, bb, tt, oo) ==
  iloc(Obj.pdem, tt, bb) * iloc(Obj.prep, tt, oo) * (Den - m.pds[<<bb, tt, oo>>])

\* C1 as written: nodal active balance with only the generation divided by
\* the phase count, battery net discharge and demand undivided (both sides
\* times phase * Den).
C1_AsWritten ==
  Loaded =>
    \A bb \in range(Obj.nbb), k \in Slices :
        Den * GenAt(LoadedM, bb, k[1], k[2])
      + Obj.phase * Den * NetBatAt(LoadedM, bb, k[1], k[2])
      + Obj.phase * Den * Inflow(LoadedM, bb, k[1], k[2])
      = Obj.phase * Den * Outflow(LoadedM, bb, k[1], k[2])
      + Obj.phase * Served(LoadedM, bb, k[1], k[2])
      + Obj.phase * Den * (LoadedM.pss[<<bb, k[1], k[2]>>] + LoadedM.pws[<<bb, k[1], k[2]>>])

\* C1 (amended): in every satisfying assignment, at every bus, period and
\* scenario, (generation of every type plus battery discharge minus battery
\* charge) divided by the phase count, plus inbound line flow, equals
\* outbound line flow plus demand x scenario multiplier x (1 - shed
\* fraction) divided by the phase count, plus the solar and wind curtailment
\* of the bus (both sides times phase * Den).
C1_ActiveBalance ==
  Loaded =>
    \A bb \in range(Obj.nbb), k \in Slices :
        Den * (GenAt(LoadedM, bb, k[1], k[2]) + NetBatAt(LoadedM, bb, k[1], k[2]))
      + Obj.phase * Den * Inflow(LoadedM, bb, k[1], k[2])
      = Obj.phase * Den * Outflow(LoadedM, bb, k[1], k[2])
      + Served(LoadedM, bb, k[1], k[2])
      + Obj.phase * Den * (LoadedM.pss[<<bb, k[1], k[2]>>] + LoadedM.pws[<<bb, k[1], k[2]>>])

\* A three-phase network serving demand at the far bus through the line.
C1_Witness ==
  /\ Loaded /\ Obj.phase = 3
  /\ LoadedM.pel[<<0, 0, 0>>] = 1
  /\ LoadedM.pds[<<1, 0, 0>>] = 0
  /\ Served(LoadedM, 1, 0, 0) > 0

\* C2: when the solver's termination is not optimal, the solve call raises
\* (and so records nothing as a final result).
C2_NonOptimalSurfaced ==
  (ret.op = "solve" /\ result # <<>> /\ result[1].term # "optimal") => ret.raised # "none"

Accessors == {"resCost", "resWind", "resBat", "resSolar", "resConv", "resCurt"}

\* C3: on an object on which no solve call has returned, every accessor
\* call raises and returns no value, whatever calls came before and whether
\* or not a results directory of another run exists in the folder.
C3_AccessorsRaiseBeforeSolve ==
  (ret.op \in Accessors /\ ~returned) => (ret.raised # "none" /\ ret.value = <<>>)

\* An accessor called before any solve while another run's results exist.
C3_Witness ==
  /\ ret.op = "resCost" /\ ~returned
  /\ disk.exists /\ "obj" \in DOMAIN disk.files

\* C4: in every satisfying assignment the commitment status of a candidate
\* generator never exceeds its investment status, at every period and
\* scenario, whatever the commit and invest flags.
C4_CommitAtMostInvest ==
  Loaded =>
    \A cg \in range(Obj.ncg), k \in Slices :
      LoadedM.cu[<<cg, k[1], k[2]>>] <= LoadedM.xg[cg]

\* A committed candidate generator under binary commitment and investment.
C4_Witness ==
  /\ Loaded /\ LoadedFl.commit /\ LoadedFl.invest /\ ~LoadedFl.onlyopr
  /\ \E cg \in range(Obj.ncg) :
       LoadedM.xg[cg] = Den /\ LoadedM.cu[<<cg, 0, 0>>] = Den /\ LoadedM.pcg[<<cg, 0, 0>>] > 0

\* The variables of assignment m with those of scenario o taken from r; the
\* investment statuses stay m's.
Hybrid(m, r, o) ==
  [fld \in (DOMAIN m) \ {"inv", "opr", "she", "z"} |->
     IF fld \in {"xg", "xs", "xw", "xb"} THEN m[fld]
     ELSE [k \in DOMAIN m[fld] |-> IF k[3] = o THEN r[fld][k] ELSE m[fld][k]]]

\* C5: in every satisfying assignment, for every candidate battery and each
\* scenario separately, the sum over the periods of charge x ec equals the
\* sum over the periods of discharge / ed (both sides times ec's
\* denominator and ed's numerator); and no constraint links scenarios:
\* replacing one scenario's values by those of another satisfying
\* assignment with the same investment statuses satisfies the model again.
C5_ClosedCyclePerScenario ==
  Loaded =>
    /\ \A cb \in range(Obj.ncb), oo \in range(Obj.noo) :
           Obj.cbat[cb].ed[1] * Sum([t \in range(Obj.ntt) |-> LoadedM.pbc[<<cb, t, oo>>] * Obj.cbat[cb].ec[1]])
         = Obj.cbat[cb].ec[2] * Sum([t \in range(Obj.ntt) |-> LoadedM.pbd[<<cb, t, oo>>] * Obj.cbat[cb].ed[2]])
    /\ (Obj.ncb > 0 /\ Obj.noo > 1) =>
         \A s \in Loadable(LoadedFl), oo \in range(Obj.noo) :
           (\A x \in {"xg", "xs", "xw", "xb"} : s.m[x] = LoadedM[x])
             => Satisfies(Obj, LoadedFl, WithCosts(Obj, Hybrid(LoadedM, s.m, oo)))

\* A battery that charges in one scenario and stays idle in the other.
C5_Witness ==
  /\ Loaded /\ Obj.ncb > 0 /\ Obj.noo > 1
  /\ \E t \in range(Obj.ntt) : LoadedM.pbc[<<0, t, 0>>] > 0
  /\ \A t \in range(Obj.ntt) : LoadedM.pbc[<<0, t, 1>>] = 0 /\ LoadedM.pbd[<<0, t, 1>>] = 0

\* C6: in every satisfying assignment, at every bus, period and scenario,
\* the solar curtailment equals (investment status x availability over the
\* candidate solar units of the bus, plus the availability once per existing
\* solar unit of the bus) minus the solar dispatch of the bus, likewise for
\* wind, and neither curtailment is negative (equalities times Den).
C6_CurtailmentDetermined ==
  Loaded =>
    \A bb \in range(Obj.nbb), k \in Slices :
      /\ Den * LoadedM.pss[<<bb, k[1], k[2]>>]
           = Sum([cs \in At(Obj, "csol", bb) |-> LoadedM.xs[cs] * iloc(Obj.psol, k[1], k[2])])
           + Den * Cardinality(At(Obj, "esol", bb)) * iloc(Obj.psol, k[1], k[2])
           - Den * Sum([cs \in At(Obj, "csol", bb) |-> LoadedM.pcs[<<cs, k[1], k[2]>>]])
           - Den * Sum([es \in At(Obj, "esol", bb) |-> LoadedM.pes[<<es, k[1], k[2]>>]])
      /\ Den * LoadedM.pws[<<bb, k[1], k[2]>>]
           = Sum([cw \in At(Obj, "cwin", bb) |-> LoadedM.xw[cw] * iloc(Obj.pwin, k[1], k[2])])
           + Den * Cardinality(At(Obj, "ewin", bb)) * iloc(Obj.pwin, k[1], k[2])
           - Den * Sum([cw \in At(Obj, "cwin", bb) |-> LoadedM.pcw[<<cw, k[1], k[2]>>]])
           - Den * Sum([ew \in At(Obj, "ewin", bb) |-> LoadedM.pew[<<ew, k[1], k[2]>>]])
      /\ LoadedM.pss[<<bb, k[1], k[2]>>] >= 0
      /\ LoadedM.pws[<<bb, k[1], k[2]>>] >= 0

\* Solar and wind both invested, both partly curtailed.
C6_Witness ==
  /\ Loaded /\ Obj.ncs > 0 /\ Obj.nes > 0 /\ Obj.ncw > 0
  /\ LoadedM.xs[0] > 0 /\ LoadedM.xw[0] > 0
  /\ LoadedM.pss[<<0, 0, 0>>] > 0 /\ LoadedM.pws[<<0, 0, 0>>] > 0

\* C7: after solve with onlyopr=True, whatever invest, every investment
\* status is 0 and every candidate unit's active and reactive dispatch
\* (conventional, solar, wind, battery charge, discharge and reactive) is 0
\* at every period and scenario.
C7_OperationOnly ==
  (Loaded /\ LoadedFl.onlyopr) =>
    /\ \A cg \in range(Obj.ncg) : LoadedM.xg[cg] = 0
    /\ \A cs \in range(Obj.ncs) : LoadedM.xs[cs] = 0
    /\ \A cw \in range(Obj.ncw) : LoadedM.xw[cw] = 0
    /\ \A cb \in range(Obj.ncb) : LoadedM.xb[cb] = 0
    /\ \A k \in Slices :
         /\ \A cg \in range(Obj.ncg) : LoadedM.pcg[<<cg, k[1], k[2]>>] = 0 /\ LoadedM.qcg[<<cg, k[1], k[2]>>] = 0
         /\ \A cs \in range(Obj.ncs) : LoadedM.pcs[<<cs, k[1], k[2]>>] = 0 /\ LoadedM.qcs[<<cs, k[1], k[2]>>] = 0
         /\ \A cw \in range(Obj.ncw) : LoadedM.pcw[<<cw, k[1], k[2]>>] = 0 /\ LoadedM.qcw[<<cw, k[1], k[2]>>] = 0
         /\ \A cb \in range(Obj.ncb) : /\ LoadedM.pbc[<<cb, k[1], k[2]>>] = 0
                                       /\ LoadedM.pbd[<<cb, k[1], k[2]>>] = 0
                                       /\ LoadedM.qcd[<<cb, k[1], k[2]>>] = 0

\* An operation-only solve with the invest flag set, on a folder that has
\* candidate units and a served demand.
C7_Witness ==
  /\ Loaded /\ LoadedFl.onlyopr /\ LoadedFl.invest
  /\ Obj.ncs > 0 /\ Obj.ncw > 0
  /\ LoadedM.pds[<<0, 0, 0>>] < Den

\* eini x xb + sum(charge x ec, t <= tt) - sum(discharge / ed, t <= tt),
\* times Den x ec's denominator x ed's numerator.
Energy(m, cb, tt, oo) ==
    Obj.cbat[cb].eini * m.xb[cb] * Obj.cbat[cb].ec[2] * Obj.cbat[cb].ed[1]
  + Den * Obj.cbat[cb].ed[1] * Obj.cbat[cb].ec[1] * Sum([t \in 0..tt |-> m.pbc[<<cb, t, oo>>]])
  - Den * Obj.cbat[cb].ec[2] * Obj.cbat[cb].ed[2] * Sum([t \in 0..tt |-> m.pbd[<<cb, t, oo>>]])

\* C8: in every satisfying assignment, for every candidate battery, period
\* tt and scenario, the cumulative energy up to and including tt lies
\* between xb x emin and xb x emax.
C8_EnergyWithinLimits ==
  Loaded =>
    \A cb \in range(Obj.ncb), k \in Slices :
      /\ Energy(LoadedM, cb, k[1], k[2])
           >= LoadedM.xb[cb] * Obj.cbat[cb].emin * Obj.cbat[cb].ec[2] * Obj.cbat[cb].ed[1]
      /\ Energy(LoadedM, cb, k[1], k[2])
           <= LoadedM.xb[cb] * Obj.cbat[cb].emax * Obj.cbat[cb].ec[2] * Obj.cbat[cb].ed[1]

\* An invested battery full at the end of the first period and discharged
\* in the last.
C8_Witness ==
  /\ Loaded /\ Obj.ncb > 0 /\ Obj.ntt > 1 /\ LoadedM.xb[0] = Den
  /\ Energy(LoadedM, 0, 0, 0) = LoadedM.xb[0] * Obj.cbat[0].emax * Obj.cbat[0].ec[2] * Obj.cbat[0].ed[1]
  /\ LoadedM.pbd[<<0, Obj.ntt - 1, 0>>] > 0

\* gate/Den x lo <= p <= gate/Den x hi
Within(p, gate, lo, hi) == Den * p >= gate * lo /\ Den * p <= gate * hi

\* C9: in every satisfying assignment every unit's active dispatch lies
\* between gating status x pmin and gating status x pmax and its reactive
\* dispatch between gating status x qmin and gating status x qmax; the
\* gating status is cu or eu for conventional units, the investment status
\* for candidate solar, wind and battery units, 1 for existing solar and
\* wind units.
C9_DispatchWithinNameplate ==
  Loaded =>
    \A k \in Slices :
      /\ \A i \in range(Obj.ncg) :
           /\ Within(LoadedM.pcg[<<i, k[1], k[2]>>], LoadedM.cu[<<i, k[1], k[2]>>], Obj.cgen[i].pmin, Obj.cgen[i].pmax)
           /\ Within(LoadedM.qcg[<<i, k[1], k[2]>>], LoadedM.cu[<<i, k[1], k[2]>>], Obj.cgen[i].qmin, Obj.cgen[i].qmax)
      /\ \A i \in range(Obj.neg) :
           /\ Within(LoadedM.peg[<<i, k[1], k[2]>>], LoadedM.eu[<<i, k[1], k[2]>>], Obj.egen[i].pmin, Obj.egen[i].pmax)
           /\ Within(LoadedM.qeg[<<i, k[1], k[2]>>], LoadedM.eu[<<i, k[1], k[2]>>], Obj.egen[i].qmin, Obj.egen[i].qmax)
      /\ \A i \in range(Obj.ncs) :
           /\ Within(LoadedM.pcs[<<i, k[1], k[2]>>], LoadedM.xs[i], Obj.csol[i].pmin, Obj.csol[i].pmax)
           /\ Within(LoadedM.qcs[<<i, k[1], k[2]>>], LoadedM.xs[i], Obj.csol[i].qmin, Obj.csol[i].qmax)
      /\ \A i \in range(Obj.nes) :
           /\ Within(LoadedM.pes[<<i, k[1], k[2]>>], Den, Obj.esol[i].pmin, Obj.esol[i].pmax)
           /\ Within(LoadedM.qes[<<i, k[1], k[2]>>], Den, Obj.esol[i].qmin, Obj.esol[i].qmax)
      /\ \A i \in range(Obj.ncw) :
           /\ Within(LoadedM.pcw[<<i, k[1], k[2]>>], LoadedM.xw[i], Obj.cwin[i].pmin, Obj.cwin[i].pmax)
           /\ Within(LoadedM.qcw[<<i, k[1], k[2]>>], LoadedM.xw[i], Obj.cwin[i].qmin, Obj.cwin[i].qmax)
      /\ \A i \in range(Obj.new) :
           /\ Within(LoadedM.pew[<<i, k[1], k[2]>>], Den, Obj.ewin[i].pmin, Obj.ewin[i].pmax)
           /\ Within(LoadedM.qew[<<i, k[1], k[2]>>], Den, Obj.ewin[i].qmin, Obj.ewin[i].qmax)
      /\ \A i \in range(Obj.ncb) :
           /\ Within(LoadedM.pbc[<<i, k[1], k[2]>>], LoadedM.xb[i], Obj.cbat[i].pmin, Obj.cbat[i].pmax)
           /\ Within(LoadedM.pbd[<<i, k[1], k[2]>>], LoadedM.xb[i], Obj.cbat[i].pmin, Obj.cbat[i].pmax)
           /\ Within(LoadedM.qcd[<<i, k[1], k[2]>>], LoadedM.xb[i], Obj.cbat[i].qmin, Obj.cbat[i].qmax)

\* C10: the commitment status of every conventional unit is 0 or 1 after a
\* solve with commit=True and within [0, 1] after a solve with commit=False,
\* and no conventional unit dispatches more than its pmax.
C10_CommitmentWithinUnit ==
  Loaded =>
    \A k \in Slices :
      /\ \A i \in range(Obj.ncg) :
           /\ LoadedM.cu[<<i, k[1], k[2]>>] \in (IF LoadedFl.commit THEN {0, Den} ELSE 0..Den)
           /\ LoadedM.pcg[<<i, k[1], k[2]>>] <= Obj.cgen[i].pmax
      /\ \A i \in range(Obj.neg) :
           /\ LoadedM.eu[<<i, k[1], k[2]>>] \in (IF LoadedFl.commit THEN {0, Den} ELSE 0..Den)
           /\ LoadedM.peg[<<i, k[1], k[2]>>] <= Obj.egen[i].pmax

\* The termination condition of the last solver call that ended.
LoadedTerm == result[1].term

\* The instance of one bus, one period, one scenario of duration 1 and
\* multiplier 1, one existing generator (pmin 0, pmax 10, ocost 5), demand 6.
SingleBusInstance ==
  /\ Obj.nbb = 1 /\ Obj.ntt = 1 /\ Obj.noo = 1 /\ Obj.neg = 1 /\ Obj.ncg = 0
  /\ Obj.sb = 1 /\ Obj.sf = 1
  /\ Obj.egen[0].pmin = 0 /\ Obj.egen[0].pmax = 10 /\ Obj.egen[0].ocost = 5
  /\ Obj.dtim[0].dt = 1 /\ iloc(Obj.pdem, 0, 0) = 6 /\ iloc(Obj.prep, 0, 0) = 1

RemoteDemandInstance ==
  /\ Obj.nbb = 2 /\ Obj.nel = 1 /\ Obj.ntt = 1 /\ Obj.noo = 1 /\ Obj.phase = 1
  /\ Obj.elin[0].from = Obj.ref_bus /\ Obj.elin[0].to = 1 /\ Obj.ref_bus = 0
  /\ Obj.elin[0].ini = 1 /\ Obj.elin[0].pmax = 5
  /\ iloc(Obj.pdem, 0, 1) = 8 /\ iloc(Obj.prep, 0, 0) = 1
  /\ \A c \in {"cgen", "egen", "cbat", "esol", "ewin", "cwin"} : At(Obj, c, 1) = {}

Penalties(m) ==
  Sum([k \in Keys(Obj.nbb, Obj) |->
         Obj.dtim[k[3]].dt *
           ( Obj.cds * iloc(Obj.pdem, k[2], k[1]) * iloc(Obj.prep, k[2], k[3]) * m.pds[k]
           + Den * Obj.css * m.pss[k] + Den * Obj.cws * m.pws[k] )])

\* The generation cost terms (times Den).
Fuel(m) ==
  Den * ( Sum([k \in Keys(Obj.ncg, Obj) |-> Obj.dtim[k[3]].dt * Obj.cgen[k[1]].ocost * m.pcg[k]])
        + Sum([k \in Keys(Obj.neg, Obj) |-> Obj.dtim[k[3]].dt * Obj.egen[k[1]].ocost * m.peg[k]])
        + Sum([k \in Keys(Obj.ncs, Obj) |-> Obj.dtim[k[3]].dt * Obj.csol[k[1]].ocost * m.pcs[k]])
        + Sum([k \in Keys(Obj.nes, Obj) |-> Obj.dtim[k[3]].dt * Obj.esol[k[1]].ocost * m.pes[k]])
        + Sum([k \in Keys(Obj.ncw, Obj) |-> Obj.dtim[k[3]].dt * Obj.cwin[k[1]].ocost * m.pcw[k]])
        + Sum([k \in Keys(Obj.new, Obj) |-> Obj.dtim[k[3]].dt * Obj.ewin[k[1]].ocost * m.pew[k]]) )

TableOf(g) == captured[1][g \o "_output"]
LinesOf(g) == disk.files[g]

\* The value the tables of the instance hold for a solved value v of group
\* g: the rounded groups count 10^-6 units of an integer power.
Shown(g, v) == IF g \in RoundedGroups THEN v * 1000000 ELSE v

\* C14 as written: every operational table has one row per (period,
\* scenario) pair, the pair (t, o) in row t x scenarios + o, and one column
\* per unit; every investment table has one row and one column per candidate
\* unit.
C14_AsWritten ==
  Loaded =>
    /\ \A g \in OprGroups :
         /\ DOMAIN TableOf(g) = range(Obj.ntt * Obj.noo) \X range(UnitsOf(Obj, g))
         /\ \A k \in Keys(UnitsOf(Obj, g), Obj) :
              TableOf(g)[<<k[2] * Obj.noo + k[3], k[1]>>] = Shown(g, LoadedM[g][k])
    /\ \A g \in InvGroups :
         /\ DOMAIN TableOf(g) = {0} \X range(UnitsOf(Obj, g))
         /\ \A i \in range(UnitsOf(Obj, g)) : TableOf(g)[<<0, i>>] = LoadedM[g][i]

\* C14 (amended): every operational table that solve keeps on the instance
\* has one row per unit and one column per (period, scenario) pair, the pair
\* (t, o) in column t x scenarios + o, which maps the pairs one to one onto
\* 0 .. periods x scenarios - 1; every investment table has one column and one
\* row per candidate unit; the table of a group with no unit has no row and no
\* column.  The file of a table is a line of the column labels followed by
\* one line per unit.
C14_TableShapes ==
  Loaded =>
    /\ \A g \in OprGroups :
         LET n == UnitsOf(Obj, g)
             cols == IF n = 0 THEN {} ELSE range(Obj.ntt * Obj.noo)
         IN /\ DOMAIN TableOf(g) = range(n) \X cols
            /\ \A k \in Keys(n, Obj) :
                 TableOf(g)[<<k[1], k[2] * Obj.noo + k[3]>>] = Shown(g, LoadedM[g][k])
            /\ \A c \in cols : \E t \in range(Obj.ntt), o \in range(Obj.noo) :
                 /\ c = t * Obj.noo + o
                 /\ \A t2 \in range(Obj.ntt), o2 \in range(Obj.noo) :
                      c = t2 * Obj.noo + o2 => (t2 = t /\ o2 = o)
            /\ Len(LinesOf(g)) = n + 1
            /\ LinesOf(g)[1] = [c \in 1..Cardinality(cols) |-> c - 1]
            /\ \A k \in Keys(n, Obj) :
                 LinesOf(g)[k[1] + 2][k[2] * Obj.noo + k[3] + 1] = Shown(g, LoadedM[g][k])
    /\ \A g \in InvGroups :
         LET n == UnitsOf(Obj, g)
         IN /\ DOMAIN TableOf(g) = range(n) \X {0}
            /\ \A i \in range(n) : TableOf(g)[<<i, 0>>] = LoadedM[g][i]
            /\ Len(LinesOf(g)) = n + 1
            /\ LinesOf(g)[1] = IF n = 0 THEN <<>> ELSE <<0>>
            /\ \A i \in range(n) : LinesOf(g)[i + 2] = <<LoadedM[g][i]>>

\* Two periods of two scenarios with a battery charging 2 in (0, 1) and
\* nothing in (1, 0): the two cells differ, in columns 1 and 2 of the row of
\* battery 0; and a group without unit.
C14_Witness ==
  /\ Loaded /\ Obj.ntt = 2 /\ Obj.noo = 2 /\ Obj.ncb = 1 /\ Obj.ncg = 0
  /\ LoadedM.pbc[<<0, 0, 1>>] # LoadedM.pbc[<<0, 1, 0>>]
  /\ TableOf("pbc")[<<0, 1>>] = Shown("pbc", LoadedM.pbc[<<0, 0, 1>>])
  /\ TableOf("pbc")[<<0, 2>>] = Shown("pbc", LoadedM.pbc[<<0, 1, 0>>])
  /\ LinesOf("xg") = << <<>> >>

\* The cell of unit i, period t, scenario o in the table of group g.
CellOf(g, k, self) == TableOf(g)[<<k[1], k[2] * self.noo + k[3]>>]

\* r counts the 10^-6 units nearest to v/SampleDen.
Nearest(r, v) ==
  LET d == r * SampleDen - v * 1000000
  IN 2 * d <= SampleDen /\ 2 * d >= -SampleDen

\* C15 as written: every operational value reported, commitment status,
\* shed fraction and voltage included, is the solved value rounded to 6
\* decimal digits, so a multiple of 10^-6; investment statuses are reported
\* as solved.
C15_AsWritten ==
  captured # <<>> =>
    /\ \A g \in RoundedGroups : \A k \in Keys(UnitsOf(SampleSelf, g), SampleSelf) :
         Nearest(CellOf(g, k, SampleSelf), LoadedM[g][k])
    /\ \A g \in ExactGroups : \A k \in Keys(UnitsOf(SampleSelf, g), SampleSelf) :
         (CellOf(g, k, SampleSelf) * 1000000) % SampleDen = 0
    /\ \A g \in InvGroups : \A i \in range(UnitsOf(SampleSelf, g)) :
         TableOf(g)[<<i, 0>>] = LoadedM[g][i]

\* C15 (amended): every value reported in the dispatch, charge and
\* discharge, reactive power, curtailment and line flow groups is the solved
\* value rounded to 6 decimal digits (the nearest count of 10^-6 units);
\* commitment statuses, shed fractions, bus voltages and investment statuses
\* are reported exactly as solved (the same numerator over SampleDen).
C15_Rounding ==
  captured # <<>> =>
    /\ \A g \in RoundedGroups : \A k \in Keys(UnitsOf(SampleSelf, g), SampleSelf) :
         Nearest(CellOf(g, k, SampleSelf), LoadedM[g][k])
    /\ \A g \in ExactGroups : \A k \in Keys(UnitsOf(SampleSelf, g), SampleSelf) :
         CellOf(g, k, SampleSelf) = LoadedM[g][k]
    /\ \A g \in InvGroups : \A i \in range(UnitsOf(SampleSelf, g)) :
         TableOf(g)[<<i, 0>>] = LoadedM[g][i]

\* A dispatch of 1/6 reported as 0.166667, a shed fraction of 1/6 reported
\* as 1/6 and a voltage of 5/6 reported as 5/6.
C15_Witness ==
  /\ captured # <<>>
  /\ LoadedM.pcg[<<0, 0, 1>>] = 1 /\ CellOf("pcg", <<0, 0, 1>>, SampleSelf) = 166667
  /\ LoadedM.pds[<<0, 0, 1>>] = 1 /\ CellOf("pds", <<0, 0, 1>>, SampleSelf) = 1
  /\ LoadedM.vol[<<0, 0, 0>>] = 5 /\ CellOf("vol", <<0, 0, 0>>, SampleSelf) = 5

\* The input table and the investment group of each capacity accessor.
CandidatesOf(op) ==
  CASE op = "resConv" -> Folder(inp_folder).cgen
    [] op = "resSolar" -> Folder(inp_folder).csol
    [] op = "resWind" -> Folder(inp_folder).cwin
    [] op = "resBat" -> Folder(inp_folder).cbat

StatusOf(op) ==
  CASE op = "resConv" -> LoadedM.xg
    [] op = "resSolar" -> LoadedM.xs
    [] op = "resWind" -> LoadedM.xw
    [] op = "resBat" -> LoadedM.xb

\* C16: after a solve that returned, resConv, resSolar, resWind and resBat
\* return one row per candidate unit of their type, indexed 1..n in input
\* order, row i holding the input table's pmax of unit i times its solved
\* investment status (times Den) and its bus; none when there is no unit.
C16_InstalledCapacity ==
  (returned /\ ret.op \in {"resConv", "resSolar", "resWind", "resBat"}) =>
    /\ ret.raised = "none"
    /\ DOMAIN ret.value = 1..Len(CandidatesOf(ret.op))
    /\ \A u \in 1..Len(CandidatesOf(ret.op)) :
         /\ ret.value[u].capacity = CandidatesOf(ret.op)[u].pmax * StatusOf(ret.op)[u - 1]
         /\ ret.value[u].bus = CandidatesOf(ret.op)[u].bus

\* The values found in the data rows of a table read from a file.
DataCells(tab) == {tab.data[r][c] : r \in DOMAIN tab.data, c \in DOMAIN tab.columns}

\* C17: after a solve that returned, resCost returns a table whose columns
\* are 'total costs', 'total investment costs' and 'total operation costs'
\* and whose data hold the total, investment and operating cost of that
\* solve.
C17_CostTable ==
  (returned /\ ret.op = "resCost") =>
    /\ ret.raised = "none"
    /\ ret.value.columns = <<"total costs", "total investment costs", "total operation costs">>
    /\ {captured[1].total, captured[1].total_inv, captured[1].total_opr} \subseteq DataCells(ret.value)

\* Field f of every unit of table tab of the object, multiplied by the base
\* power, is the value of the input table.
RoundTrip(tab, f) ==
  \A i \in range(Len(Folder(inp_folder)[tab])) :
    Obj[tab][i][f] * Obj.sb = Folder(inp_folder)[tab][i + 1][f]

\* C18: every power and energy bound of every unit table of the constructed
\* object (pmin, pmax, qmin, qmax of the generator, solar, wind and battery
\* tables; emin, emax, eini of the battery table) is the input value divided
\* by the base power once: stored value x base power = input value.
C18_PerUnitRoundTrip ==
  /\ \A tab \in {"cgen", "egen", "csol", "esol", "cwin", "ewin", "cbat"} :
       \A f \in {"pmin", "pmax", "qmin", "qmax"} : RoundTrip(tab, f)
  /\ \A f \in {"emin", "emax", "eini"} : RoundTrip("cbat", f)

\* The 17 input tables of a folder.
InputTables ==
  {"cgen_dist.csv", "egen_dist.csv", "csol_dist.csv", "esol_dist.csv", "cwin_dist.csv",
   "ewin_dist.csv", "cbat_dist.csv", "elin_dist.csv", "pdem_dist.csv", "qdem_dist.csv",
   "prep_dist.csv", "qrep_dist.csv", "psol_dist.csv", "qsol_dist.csv", "pwin_dist.csv",
   "qwin_dist.csv", "dtim_dist.csv"}

\* C19: when the input folder does not exist or one of the 17 input tables
\* is missing from it, the construction raises FileNotFoundError and there is
\* no object: no method is ever called, nothing is solved or written.
C19_MissingInput ==
  (~listing.exists \/ \E n \in InputTables : n \notin listing.names) =>
    /\ ret = Call("__init__", "FileNotFoundError", <<>>)
    /\ outdir = "" /\ output = <<>> /\ captured = <<>> /\ result = <<>> /\ ~returned

\* A folder with every table but the last one read, dtim_dist.csv.
C19_Witness ==
  /\ listing.exists /\ listing.names = InputTables \ {"dtim_dist.csv"}
  /\ ret.op = "__init__" /\ ret.raised = "FileNotFoundError"

\* C20: two solve calls running at once on separate objects share nothing:
\* in every interleaving, every file a call has written is in its results
\* directory and holds that call's values (nothing deleted or overwritten by
\* the other call), the address its NEOS request carried is its own, and no
\* step of it fails on what the other call did to the directory.
C20_NoSharedState ==
  \A i \in DOMAIN calls :
    /\ \A k \in 1..calls[i].k : \A n \in Written[k] :
         fs[calls[i].folder].exists /\ fs[calls[i].folder].files[n] = i
    /\ calls[i].sent \in {"", solemail(i)}
    /\ calls[i].raised = "none"

\* What each result accessor returns when called in the current state.
Reports ==
  [op \in {"resCost", "resWind", "resBat", "resSolar", "resConv", "resCurt"} |->
     CASE op = "resWind" -> InstalledCapacity(op, "xw", Folder(inp_folder).cwin)
       [] op = "resBat" -> InstalledCapacity(op, "xb", Folder(inp_folder).cbat)
       [] op = "resSolar" -> InstalledCapacity(op, "xs", Folder(inp_folder).csol)
       [] op = "resConv" ->
            IF ~HasResults THEN NeedSolve(op)
            ELSE IF read_error("xg") # "none" THEN Call(op, read_error("xg"), <<>>)
            ELSE Call(op, "none", read_csv("xg", FALSE))
       [] op = "resCost" ->
            IF ~HasResults THEN NeedSolve(op)
            ELSE IF read_error("obj") # "none" THEN Call(op, read_error("obj"), <<>>)
            ELSE Call(op, "none", read_csv("obj", TRUE))
       [] op = "resCurt" ->
            IF ~HasResults THEN NeedSolve(op)
            ELSE IF \E n \in {"pds", "pss", "pws"} : read_error(n) # "none"
                 THEN Call(op, "error", <<>>)
            ELSE Call(op, "none", <<read_csv("pds", TRUE), read_csv("pss", TRUE),
                                   read_csv("pws", TRUE)>>)]

\* C21: once a solve call on the object has returned, what the accessors
\* report never changes again, whatever is called afterwards (accessors or
\* further solve calls).
C21_ReportsImmutable == [][returned => Reports' = Reports]_vars

\* C22: in every satisfying assignment, for every line, period and
\* scenario, the active flow lies within -pmax x ini .. pmax x ini and the
\* reactive flow within -qmax x ini .. qmax x ini; a line with ini = 0
\* carries no active and no reactive flow.
C22_ThermalLimits ==
  Loaded =>
    \A k \in Keys(Obj.nel, Obj) :
      LET l == Obj.elin[k[1]]
      IN /\ LoadedM.pel[k] >= -(l.pmax * l.ini) /\ LoadedM.pel[k] <= l.pmax * l.ini
         /\ LoadedM.qel[k] >= -(l.qmax * l.ini) /\ LoadedM.qel[k] <= l.qmax * l.ini
         /\ l.ini = 0 => (LoadedM.pel[k] = 0 /\ LoadedM.qel[k] = 0)

\* The out-of-service line of folder "open" carrying nothing: the demand of
\* bus 0 is shed entirely while the generator of bus 1 serves its own bus.
C22_Witness ==
  /\ Loaded /\ Obj.nel = 1 /\ Obj.elin[0].ini = 0 /\ Obj.elin[0].pmax > 0
  /\ LoadedM.pel[<<0, 0, 0>>] = 0 /\ LoadedM.qel[<<0, 0, 0>>] = 0
  /\ LoadedM.pds[<<0, 0, 0>>] = Den /\ LoadedM.peg[<<0, 0, 0>>] = 1

\* C23: in every satisfying assignment the voltage of the reference bus
\* the object was constructed with is 1 (the numerator Den) in every period
\* and scenario, and every bus voltage lies within vmin .. vmax.
C23_ReferenceVoltage ==
  Loaded =>
    \A tt \in range(Obj.ntt), oo \in range(Obj.noo) :
      /\ LoadedM.vol[<<Obj.ref_bus, tt, oo>>] = Den
      /\ \A bb \in range(Obj.nbb) :
           LoadedM.vol[<<bb, tt, oo>>] >= Obj.vmin /\ LoadedM.vol[<<bb, tt, oo>>] <= Obj.vmax

\* Reference bus 2 at voltage 1 while buses 0 and 1 are at the upper limit.
C23_Witness ==
  /\ Loaded /\ Obj.ref_bus = 2
  /\ LoadedM.vol[<<2, 0, 0>>] = Den
  /\ LoadedM.vol[<<0, 0, 0>>] = Obj.vmax /\ Obj.vmax > Den

\* C24: in every satisfying assignment the investment statuses of the
\* batteries sum to at most those of the candidate solar units plus those of
\* the candidate wind units; with no solar or wind unit installed no
\* battery is installed.
C24_BatteryEnablement ==
  Loaded =>
    LET xb == Sum([cb \in range(Obj.ncb) |-> LoadedM.xb[cb]])
        xs == Sum([cs \in range(Obj.ncs) |-> LoadedM.xs[cs]])
        xw == Sum([cw \in range(Obj.ncw) |-> LoadedM.xw[cw]])
    IN /\ xb <= xs + xw
       /\ (xs = 0 /\ xw = 0) => \A cb \in range(Obj.ncb) : LoadedM.xb[cb] = 0

\* A battery installed beside a solar unit installed as much, the rule tight.
C24_Witness ==
  /\ Loaded /\ Obj.ncb = 1 /\ Obj.ncs = 1
  /\ LoadedM.xb[0] > 0 /\ LoadedM.xb[0] = LoadedM.xs[0]

\* The recursive formulation: energy[t] = energy[t-1] + charge[t] x ec
\* - discharge[t] / ed, the energy before the first period being eini x xb
\* (times Den x ec's denominator x ed's numerator).
RECURSIVE energy(_, _, _, _)
energy(m, cb, t, oo) ==
  LET b == Obj.cbat[cb]
  IN IF t < 0 THEN b.eini * m.xb[cb] * b.ec[2] * b.ed[1]
     ELSE energy(m, cb, t - 1, oo)
          + Den * b.ed[1] * b.ec[1] * m.pbc[<<cb, t, oo>>]
          - Den * b.ec[2] * b.ed[2] * m.pbd[<<cb, t, oo>>]

\* The assignments that differ from m in the charge and the discharge of one
\* battery at one period and scenario.
Perturbed(m, cb, tt, oo) ==
  {[m EXCEPT !.pbc[<<cb, tt, oo>>] = c, !.pbd[<<cb, tt, oo>>] = d] : c \in 0..MaxPow, d \in 0..MaxPow}

\* C26: for every battery, period and scenario the running sum of the
\* constraints built by solve equals the energy of the recursive per-step
\* formulation, in every satisfying assignment and in every assignment that
\* differs from one in a charge and a discharge; hence the running-sum
\* bounds hold of an assignment exactly when the recursive bounds do.
C26_RecursiveEnergy ==
  Loaded =>
    \A cb \in range(Obj.ncb), k \in Slices, j \in Slices :
      \A n \in Perturbed(LoadedM, cb, j[1], j[2]) :
        LET b == Obj.cbat[cb]
            e == energy(n, cb, k[1], k[2])
        IN /\ EngUpTo(Obj, n, cb, k[1], k[2]) = e
           /\ min_eng_bat_rule(Obj, n, cb, k[1], k[2]) <=> e >= n.xb[cb] * b.emin * b.ec[2] * b.ed[1]
           /\ max_eng_bat_rule(Obj, n, cb, k[1], k[2]) <=> e <= n.xb[cb] * b.emax * b.ec[2] * b.ed[1]

\* An installed battery that charges in the first period and discharges in
\* the second, and a neighbouring assignment that breaks the upper bound in
\* both formulations.
C26_Witness ==
  /\ Loaded /\ Obj.ncb > 0 /\ Obj.ntt > 1 /\ LoadedM.xb[0] > 0
  /\ LoadedM.pbc[<<0, 0, 0>>] > 0 /\ LoadedM.pbd[<<0, 1, 0>>] > 0
  /\ energy(LoadedM, 0, 0, 0) > energy(LoadedM, 0, 1, 0)
  /\ \E n \in Perturbed(LoadedM, 0, 0, 0) :
        /\ ~max_eng_bat_rule(Obj, n, 0, 0, 0)
        /\ energy(n, 0, 0, 0) > n.xb[0] * Obj.cbat[0].emax * Obj.cbat[0].ec[2] * Obj.cbat[0].ed[1]

\* C27: in every satisfying assignment, for every candidate battery and
\* every scenario, the cumulative energy at the last period equals the
\* initial energy eini x xb; and a battery with a positive investment
\* status has emin <= eini <= emax.
C27_EnergyReturnsToInitial ==
  Loaded =>
    \A cb \in range(Obj.ncb), oo \in range(Obj.noo) :
      LET b == Obj.cbat[cb]
      IN /\ EngUpTo(Obj, LoadedM, cb, Obj.ntt - 1, oo) = b.eini * LoadedM.xb[cb] * b.ec[2] * b.ed[1]
         /\ LoadedM.xb[cb] > 0 => (b.emin <= b.eini /\ b.eini <= b.emax)

\* An installed battery that has charged above its initial energy after the
\* first period and is back at it after the last.
C27_Witness ==
  /\ Loaded /\ Obj.ncb > 0 /\ Obj.ntt > 1 /\ LoadedM.xb[0] > 0
  /\ EngUpTo(Obj, LoadedM, 0, 0, 0) > Obj.cbat[0].eini * LoadedM.xb[0] * Obj.cbat[0].ec[2] * Obj.cbat[0].ed[1]
  /\ EngUpTo(Obj, LoadedM, 0, Obj.ntt - 1, 0) = Obj.cbat[0].eini * LoadedM.xb[0] * Obj.cbat[0].ec[2] * Obj.cbat[0].ed[1]
  /\ Obj.cbat[0].emin <= Obj.cbat[0].eini /\ Obj.cbat[0].eini <= Obj.cbat[0].emax

\* The last solve call on the object failed while capturing the values.
CaptureFailed == result # <<>> /\ result[1].term = "infeasible"

\* What the accessors return from the files of the values the object holds
\* from its last successful solve.
ReportsOf(cap) ==
  LET files == Files(cap)
      table(n, header) == IF header THEN [columns |-> files[n][1], data |-> Tail(files[n])]
                          ELSE [columns |-> [c \in 1..Len(files[n][1]) |-> c - 1], data |-> files[n]]
  IN [resCost |-> table("obj", TRUE),
      resCurt |-> [demand_shedding |-> table("pds", TRUE),
                   solar_curtailment |-> table("pss", TRUE),
                   wind_curtailment |-> table("pws", TRUE)]]

C29_VoltageDropOnEveryLine ==
  Loaded =>
    \A k \in Keys(Obj.nel, Obj) :
      LET l == Obj.elin[k[1]]
          from == LoadedM.vol[<<l.from, k[2], k[3]>>]
          to == LoadedM.vol[<<l.to, k[2], k[3]>>]
      IN /\ from - to = l.res * LoadedM.pel[k] + l.rea * LoadedM.qel[k]
         /\ l.ini = 0 => from = to

\* The end buses of the out-of-service line of folder "open" both at the
\* upper voltage limit, away from the voltage of the reference bus.
C29_Witness ==
  /\ Loaded /\ Obj.nel = 1 /\ Obj.elin[0].ini = 0 /\ Obj.elin[0].res > 0
  /\ LoadedM.vol[<<Obj.elin[0].from, 0, 0>>] = Obj.vmax
  /\ LoadedM.vol[<<Obj.elin[0].to, 0, 0>>] = Obj.vmax
  /\ LoadedM.vol[<<Obj.ref_bus, 0, 0>>] < Obj.vmax

\* The nodes n reaches along the lines L.
RECURSIVE Reach(_, _)
Reach(R, L) ==
  LET more == {n \in UNION {{e[1], e[2]} : e \in L} : \E e \in L : {e[1], e[2]} \cap R # {} /\ n \in {e[1], e[2]}}
  IN IF more \subseteq R THEN R ELSE Reach(R \cup more, L)

\* The lines L join all the nodes 0 .. node - 1.
Connected(node, L) == Reach({0}, L) = 0..(node - 1)

\* The spanning trees of the complete graph on 0 .. node - 1.
SpanningTrees ==
  [node \in 2..MaxNodes |->
     {L \in SUBSET {e \in (0..(node - 1)) \X (0..(node - 1)) : e[1] < e[2]} :
        Cardinality(L) = node - 1 /\ Connected(node, L)}]

\* The length of the lines L between the nodes of geol_dist.csv: the
\* distances between the places, distance taking (latitude, longitude).
Length(L) ==
  Sum([e \in L |-> distance(<<geol[e[1] + 1][2], geol[e[1] + 1][1]>>,
                             <<geol[e[2] + 1][2], geol[e[2] + 1][1]>>)])

\* The lines written to rou_dist.csv.
Lines == {<<rou_dist[i].from, rou_dist[i].to>> : i \in DOMAIN rou_dist}

\* C25: for 2 or more nodes min_spn_tre writes node - 1 lines to
\* rou_dist.csv and the same lines to elin_dist.csv, every one with ini = 1;
\* the lines join all the nodes and contain no cycle (removing any line
\* disconnects them), and no spanning tree of the complete graph on the
\* nodes has a smaller total length.
C25_MinimumSpanningTree ==
  ret.op = "min_spn_tre" =>
    LET node == Len(geol)
    IN /\ Len(rou_dist) = node - 1 /\ Len(elin_dist) = node - 1
       /\ Cardinality(Lines) = node - 1
       /\ \A i \in DOMAIN elin_dist :
            /\ elin_dist[i].from = rou_dist[i].from /\ elin_dist[i].to = rou_dist[i].to
            /\ elin_dist[i].ini = 1
       /\ Connected(node, Lines)
       /\ \A e \in Lines : ~Connected(node, Lines \ {e})
       /\ \A L \in SpanningTrees[node] : Length(Lines) <= Length(L)

\* The absolute value.
Abs(x) == IF x < 0 THEN -x ELSE x

\* C30 as stated: the durations written by kmeans_clust sum to exactly 365.
C30_AsWritten ==
  ret.op = "kmeans_clust" => Sum(dtim_dist) = Year * Fix

\* C30: the durations written by kmeans_clust sum to 365 up to the rounding
\* of the floating-point division and additions: the sum differs from 365
\* by at most 2^-Prec x (the sum of the magnitudes of the durations plus
\* |365 - total days|), each duration differs from its cluster's days plus
\* (365 - total days) / n_clust by at most 2^-Prec x (its own magnitude
\* plus that of the share), and the sum is exactly 365 when
\* (365 - total days) / n_clust is an integer.
C30_SumUpToRounding ==
  ret.op = "kmeans_clust" =>
    LET n_clust == Len(labels)
        off == Year - Sum(labels)
    IN /\ Abs(Sum(dtim_dist) - Year * Fix) * 2^Prec
            <= Sum([n \in 1..n_clust |-> Abs(dtim_dist[n])]) + Abs(off) * Fix
       /\ \A n \in 1..n_clust :
            Abs(n_clust * dtim_dist[n] - (n_clust * labels[n] + off) * Fix) * 2^Prec
              <= n_clust * Abs(dtim_dist[n]) + Abs(off) * Fix
       /\ off % n_clust = 0 => Sum(dtim_dist) = Year * Fix

\* Three clusters of 363 days: the share 2/3 is no floating-point number
\* and the durations written do not add up to 365.
C30_Witness ==
  /\ ret.op = "kmeans_clust" /\ Len(labels) = 3 /\ Sum(labels) = Year - 2
  /\ Sum(dtim_dist) # Year * Fix
  /\ \A n \in 1..3 : dtim_dist[n] > labels[n] * Fix /\ dtim_dist[n] < (labels[n] + 1) * Fix

=============================================================================
